---------------------------- MODULE Spec2Model ----------------------------
(***************************************************************************)
(* Model of the control loop of app.py: the sampling loop                  *)
(* (sensor_monitor), the decision engine (auto_control_environment and     *)
(* GPIOControlService), the dual-backend persistence service               *)
(* (DatabaseService) and the database health monitor.                      *)
(*                                                                         *)
(* Every Python function is an operator that returns the values the        *)
(* function writes; the actions apply these operators to the variables.    *)
(* Sensor values are integers in the sensor's own unit.  The random        *)
(* draws of the simulation, the wall clock hour and the reachability of    *)
(* the two backends are nondeterministic choices.  GPIO.output is taken    *)
(* by its contract (it drives the pin); the driver behind it is outside    *)
(* this model.  A pymongo Database handle counts as true in a condition.   *)
(***************************************************************************)
EXTENDS Integers, Sequences, FiniteSets, TLC

VARIABLES
    GPIO_AVAILABLE,   \* app.py:27/30, fixed at import time
    MONGO_URI,        \* app.config['MONGO_URI'] is set
    calibration_offsets, \* SENSOR_CONFIG['calibration_offsets'], per field
    CURRENT_PHASE,    \* global CURRENT_PHASE
    fogger_active,    \* GPIOControlService fields
    fan_speed,
    heater_active,
    lights_active,
    fogger_pin,       \* level last written to GPIO_CONFIG['FOGGER_PIN']
    timers,           \* pending threading.Timer(duration, control_fogger, [False])
    fogger_calls,     \* control_fogger calls of the timer thread and of a
                      \* request thread that are between two statements
    tick_locals,      \* local variables of the call the loop thread is in
                      \* when it is between two statements of that call
    last_read,        \* per field, the value of the last successful read
                      \* of read_real_sensors
    current_data,     \* SensorService.current_data, the dict the tick works on
    use_mongo,        \* DatabaseService fields
    mongo_db,
    sqlite_conn,
    mongo_store,      \* documents of sensor_db.readings
    sqlite_store,     \* rows of the SQLite table readings
    mongo_up,         \* environment: the MongoDB server answers
    sqlite_ok,        \* environment: SQLite statements succeed
    now,              \* the clock, in sampling intervals
    tick_pc,          \* position of sensor_monitor
    ticks,            \* readings produced so far
    tick_trace,       \* steps the current tick has completed
    lastError,        \* step whose exception sent the loop to its backoff
    mon_pc,           \* position of database_health_monitor
    selector_by,      \* who wrote use_mongo last: "init", "failover",
                      \* "reconnect" (a probe after a failed first connection)
                      \* or "failback" (a successful probe after a failover)
    out,              \* what the step just taken returned or sent
    events            \* commands and backend changes so far

vars == <<GPIO_AVAILABLE, MONGO_URI, calibration_offsets, CURRENT_PHASE, fogger_active, fan_speed,
          heater_active, lights_active, fogger_pin, timers, fogger_calls,
          tick_locals, last_read, current_data, use_mongo,
          mongo_db, sqlite_conn, mongo_store, sqlite_store, mongo_up,
          sqlite_ok, now, tick_pc, ticks, tick_trace, lastError, mon_pc,
          selector_by, out, events>>

gpioVars == <<fogger_active, fan_speed, heater_active, lights_active,
             fogger_pin, timers>>
stepVars == <<fogger_calls, tick_locals, last_read>>
dbVars   == <<use_mongo, mongo_db, sqlite_conn, mongo_store, sqlite_store,
             selector_by>>
envVars  == <<mongo_up, sqlite_ok>>
tickVars == <<tick_pc, ticks, tick_trace, lastError>>
cfgVars  == <<GPIO_AVAILABLE, MONGO_URI, calibration_offsets>>

-----------------------------------------------------------------------------
(* Bounds of the model *)

MaxTicks == 2
MaxEvents == 2

-----------------------------------------------------------------------------
(* Values *)

None == "None"

Max(a, b) == IF a >= b THEN a ELSE b
Min(a, b) == IF a <= b THEN a ELSE b

\* config.py is not part of the sources: the phase table and the control
\* settings are written from section 3 and section 8 of the specification.
GROWTH_PHASES ==
    [colonization |-> [name |-> "Colonization", temp_min |-> 24, temp_max |-> 28,
                       humidity_min |-> 70, humidity_max |-> 80,
                       light_needed |-> FALSE],
     pinning      |-> [name |-> "Pinning", temp_min |-> 18, temp_max |-> 22,
                       humidity_min |-> 85, humidity_max |-> 95,
                       light_needed |-> TRUE],
     fruiting     |-> [name |-> "Fruiting", temp_min |-> 20, temp_max |-> 26,
                       humidity_min |-> 65, humidity_max |-> 85,
                       light_needed |-> TRUE]]

Phases == DOMAIN GROWTH_PHASES

\* MUSHROOM_CONFIG['control_settings']
fogger_duration == 30
on_hour == 6
off_hour == 18

\* GROWTH_PHASES.get(CURRENT_PHASE, GROWTH_PHASES['fruiting'])
PhaseConfig(phase) ==
    IF phase \in DOMAIN GROWTH_PHASES THEN GROWTH_PHASES[phase]
    ELSE GROWTH_PHASES["fruiting"]


-----------------------------------------------------------------------------
(* SensorService *)

\* The classification with the water override applied last, after the count
determine_mushroom_status_late(phase, temp, humidity, co2, light, water_level) ==
    LET phase_config == PhaseConfig(phase)
        n == (IF temp < phase_config.temp_min - 2
                 \/ temp > phase_config.temp_max + 2 THEN 1 ELSE 0)
             + (IF humidity < phase_config.humidity_min - 10
                   \/ humidity > phase_config.humidity_max + 5 THEN 1 ELSE 0)
             + (IF co2 < 600 \/ co2 > 1500 THEN 1 ELSE 0)
             + (IF phase_config.light_needed /\ light < 200 THEN 1 ELSE 0)
             + (IF water_level < 20 THEN 1 ELSE 0)
    IN  IF n = 0 THEN "optimal"
        ELSE IF n = 1 THEN "good"
        ELSE IF n = 2 THEN "warning"
        ELSE "critical"

\* A classification that takes any out-of-range field for 'critical'
determine_mushroom_status_any_issue(phase, temp, humidity, co2, light, water_level) ==
    IF determine_mushroom_status_late(phase, temp, humidity, co2, light,
                                      water_level) = "optimal"
    THEN "optimal" ELSE "critical"

\* determine_mushroom_status: the list issues is built by the five appends
determine_mushroom_status_inclusive(phase, temp, humidity, co2, light, water_level) ==
    LET phase_config == PhaseConfig(phase)
        i1 == IF \/ temp <= phase_config.temp_min - 2
                 \/ temp >= phase_config.temp_max + 2
              THEN <<"temperature">> ELSE <<>>
        i2 == IF \/ humidity <= phase_config.humidity_min - 10
                 \/ humidity >= phase_config.humidity_max + 5
              THEN Append(i1, "humidity") ELSE i1
        i3 == IF co2 <= 600 \/ co2 >= 1500 THEN Append(i2, "co2") ELSE i2
        i4 == IF phase_config.light_needed /\ light <= 200
              THEN Append(i3, "light") ELSE i3
        issues == IF water_level <= 20 THEN Append(i4, "water_level") ELSE i4
    IN  IF water_level <= 10 THEN "critical"
        ELSE IF issues = <<>> THEN "optimal"
        ELSE IF Len(issues) = 1 THEN "good"
        ELSE IF Len(issues) = 2 THEN "warning"
        ELSE "critical"

determine_mushroom_status(phase, temp, humidity, co2, light, water_level) ==
    LET phase_config == PhaseConfig(phase)
        temp_min == phase_config.temp_min
        temp_max == phase_config.temp_max
        humidity_min == phase_config.humidity_min
        humidity_max == phase_config.humidity_max
        i1 == IF temp < temp_min - 2 \/ temp > temp_max + 2
              THEN <<"temperature">> ELSE <<>>
        i2 == IF humidity < humidity_min - 10 \/ humidity > humidity_max + 5
              THEN Append(i1, "humidity") ELSE i1
        i3 == IF co2 < 600 \/ co2 > 1500 THEN Append(i2, "co2") ELSE i2
        i4 == IF phase_config.light_needed /\ light < 200
              THEN Append(i3, "light") ELSE i3
        issues == IF water_level < 20 THEN Append(i4, "water_level") ELSE i4
    IN  IF water_level < 10 THEN "critical"
        ELSE IF issues = <<>> THEN "optimal"
        ELSE IF Len(issues) = 1 THEN "good"
        ELSE IF Len(issues) = 2 THEN "warning"
        ELSE "critical"

\* SensorService.__init__: the first current_data
InitialData ==
    [id |-> 0, temperature |-> 0, humidity |-> 0, co2 |-> 400,
     light_intensity |-> 0, water_level |-> 50, mushroom_phase |-> "pinning",
     mushroom_status |-> "healthy", extra |-> {}]

\* The draws of random.uniform / random.choice: one representative value
\* each, two where a threshold of the control rules lies between them
TempVariation == {1}
HumidityVariation == {0}
Co2Draws == {900}
\* water_level_base + uniform(-10, 5) - (simulation_time / 3600) * consumption:
\* 80 at the start, falling with simulation_time until the clamp at 10
WaterDraws == {5, 75}

\* simulate_realistic_data: the readings one call can produce
simulate_realistic_data(phase, hour, id) ==
    LET phase_config == PhaseConfig(phase)
        temp_base == (phase_config.temp_min + phase_config.temp_max) \div 2
        humidity_base ==
            (phase_config.humidity_min + phase_config.humidity_max) \div 2
        light_base == IF phase_config.light_needed /\ 6 <= hour /\ hour <= 18
                      THEN 500 ELSE 50
    IN  { [id |-> id,
           temperature |-> temp_base + tv,
           humidity |-> Max(50, Min(98, humidity_base + hv)),
           co2 |-> Max(400, c),
           light_intensity |-> Max(0, light_base),
           water_level |-> Max(10, Min(100, w)),
           mushroom_phase |-> phase,
           mushroom_status |->
               determine_mushroom_status(phase, temp_base + tv,
                   Max(50, Min(98, humidity_base + hv)), Max(400, c),
                   Max(0, light_base), Max(10, Min(100, w))),
           extra |-> {}] :
          tv \in TempVariation, hv \in HumidityVariation, c \in Co2Draws,
          w \in WaterDraws }

\* The fields of a reading that come from a sensor
SensorFields ==
    {"temperature", "humidity", "co2", "light_intensity", "water_level"}

\* SENSOR_CONFIG['calibration_offsets'] with every offset 0; the loop as it
\* runs never reads the offsets (get_sensor_data below)
NoOffsets ==
    [temperature |-> 0, humidity |-> 0, co2 |-> 0, light_intensity |-> 0,
     water_level |-> 0]

\* SENSOR_CONFIG['reservoir_config']: config.py is not part of the sources,
\* the values are those of the same calculation in test_ultrasonic.py
sensor_height_cm == 35
max_depth_cm == 30
min_depth_cm == 5

\* The value calculate_water_level_percentage returns for no distance
WaterDefault == 50

\* What a driver hands to read_real_sensors.  state is "ok" when the read
\* delivers its values, "absent" when the sensor object was not set up,
\* "not_ready" for data_ready False or a None value, "raises" for an
\* exception of the driver, "timeout" for read_ultrasonic_distance -> None.
NoScd(state) == [state |-> state, temperature |-> 0, humidity |-> 0, co2 |-> 0]
NoLight(state) == [state |-> state, millivolts |-> 0]
NoDistance == [state |-> "timeout", distance_cm |-> 0]

\* The percentage taken from the depth as it is measured, not clamped
water_level_of_distance_no_clamp(sensor_height, max_depth, min_depth, distance_cm) ==
    LET water_depth == sensor_height - distance_cm
    IN  IF water_depth <= min_depth THEN 0
        ELSE ((water_depth - min_depth) * 100) \div (max_depth - min_depth)

\* Lines 470-486 of calculate_water_level_percentage for a reservoir of the
\* given dimensions and a measured distance, in whole percent
water_level_of_distance(sensor_height, max_depth, min_depth, distance_cm) ==
    LET water_depth == Max(0, Min(max_depth, sensor_height - distance_cm))
    IN  IF water_depth <= min_depth THEN 0
        ELSE ((water_depth - min_depth) * 100) \div (max_depth - min_depth)

\* calculate_water_level_percentage(distance_cm), in whole percent
calculate_water_level_percentage(distance) ==
    IF distance.state # "ok" THEN WaterDefault
    ELSE water_level_of_distance(sensor_height_cm, max_depth_cm, min_depth_cm,
                                 distance.distance_cm)

\* int((light_voltage / 3.3) * 1000), the voltage given in millivolts
light_from_voltage(millivolts) == (millivolts * 1000) \div 3300

\* read_real_sensors: data = self.current_data.copy(), then the three blocks
\* inside one try; an exception of a driver ends the reads and returns data
\* as it is by then.  self.current_data is not assigned.
read_real_sensors(cur, off, scd, light, distance) ==
    LET d1 == IF scd.state = "ok"
              THEN [cur EXCEPT
                       !.temperature = scd.temperature + off.temperature,
                       !.humidity = scd.humidity + off.humidity,
                       !.co2 = scd.co2 + off.co2]
              ELSE cur
        d2 == IF light.state = "ok"
              THEN [d1 EXCEPT !.light_intensity =
                       light_from_voltage(light.millivolts) + off.light_intensity]
              ELSE d1
        d3 == [d2 EXCEPT !.water_level =
                  calculate_water_level_percentage(distance) + off.water_level]
    IN  IF scd.state = "raises" THEN cur
        ELSE IF light.state = "raises" THEN d1
        ELSE d3

\* The driver results of one tick: each sensor delivers or fails
ScdInputs ==
    {NoScd("absent"), NoScd("not_ready"), NoScd("raises")}
    \cup {[state |-> "ok", temperature |-> 20, humidity |-> h, co2 |-> 700] :
             h \in {60, 100}}
LightInputs ==
    {NoLight("raises"), [state |-> "ok", millivolts |-> 1650]}
DistanceInputs ==
    {NoDistance} \cup {[state |-> "ok", distance_cm |-> d] : d \in {5, 20}}

\* hasattr(self, 'dht') at line 619: no statement of app.py assigns self.dht
HasDht == FALSE

\* The branch get_sensor_data takes (line 619)
SensorPath(gpio) ==
    IF gpio /\ HasDht THEN "read_real_sensors" ELSE "simulate_realistic_data"

\* get_sensor_data: the readings one call can return
get_sensor_data(gpio, cur, off, phase, hour, id) ==
    IF SensorPath(gpio) = "read_real_sensors"
    THEN {read_real_sensors(cur, off, scd, light, distance) :
             scd \in ScdInputs, light \in LightInputs,
             distance \in DistanceInputs}
    ELSE simulate_realistic_data(phase, hour, id)

-----------------------------------------------------------------------------
(* GPIOControlService.  st is the record of its fields and pending timers; *)
(* calls lists the methods called on it since st was taken                 *)

ControlState ==
    [fogger_active |-> fogger_active, fan_speed |-> fan_speed,
     heater_active |-> heater_active, lights_active |-> lights_active,
     fogger_pin |-> fogger_pin, timers |-> timers, calls |-> <<>>]

\* control_fogger(activate, duration); duration 0 stands for None.  In
\* hardware mode GPIO.output writes the pin before the field is assigned.
control_fogger(st, gpio, activate, duration) ==
    LET s == [st EXCEPT !.calls = Append(@, "control_fogger")]
    IN  IF ~gpio THEN [s EXCEPT !.fogger_active = activate]
        ELSE IF activate
             THEN [s EXCEPT !.fogger_pin = TRUE, !.fogger_active = TRUE,
                            !.timers = IF duration # 0 THEN @ + 1 ELSE @]
             ELSE [s EXCEPT !.fogger_pin = FALSE, !.fogger_active = FALSE]

\* control_fan(speed_percent)
control_fan(st, gpio, speed_percent) ==
    [st EXCEPT !.fan_speed = speed_percent,
               !.calls = Append(@, "control_fan")]

\* control_lights(activate)
control_lights(st, gpio, activate) ==
    [st EXCEPT !.lights_active = activate,
               !.calls = Append(@, "control_lights")]

\* get_control_status
get_control_status(st) ==
    [fogger_active |-> st.fogger_active, fan_speed |-> st.fan_speed,
     heater_active |-> st.heater_active, lights_active |-> st.lights_active]

-----------------------------------------------------------------------------
(* auto_control_environment: the four rules in the order of the code.  low *)
(* and enough are the two water levels of lines 806 and 813.               *)

\* The fan rules and the light rule (lines 816-829); band is the 5 of line
\* 817 and last_hour the last hour of the light schedule
FanLightRulesOf(sensor_data, phase, hour, gpio, s2, band, last_hour) ==
    LET phase_config == PhaseConfig(phase)
        humidity == sensor_data.humidity
        humidity_max == phase_config.humidity_max
        s3 == IF humidity > humidity_max + 5 /\ s2.fan_speed < 50
              THEN control_fan(s2, gpio, 50)
              ELSE IF humidity <= humidity_max + 5 - band /\ s2.fan_speed > 0
                   THEN control_fan(s2, gpio, 0) ELSE s2
        should_lights_be_on ==
            phase_config.light_needed /\ on_hour <= hour /\ hour <= last_hour
    IN  IF should_lights_be_on # s3.lights_active
        THEN control_lights(s3, gpio, should_lights_be_on) ELSE s3

\* The fan rules with the fan turned off as soon as humidity is not above
\* humidity_max + 5
FanLightRules_no_band(sensor_data, phase, hour, gpio, s2) ==
    FanLightRulesOf(sensor_data, phase, hour, gpio, s2, 0, off_hour - 1)

\* The light rule with off_hour as an hour of light
FanLightRules_through_off_hour(sensor_data, phase, hour, gpio, s2) ==
    FanLightRulesOf(sensor_data, phase, hour, gpio, s2, 5, off_hour)

FanLightRules(sensor_data, phase, hour, gpio, s2) ==
    FanLightRulesOf(sensor_data, phase, hour, gpio, s2, 5, off_hour - 1)

\* The condition of rule 1 (lines 806-807) and of rule 2 (line 813)
Rule1(sensor_data, active, low) ==
    sensor_data.water_level < low /\ active

Rule2(sensor_data, phase, active, enough) ==
    /\ sensor_data.humidity < PhaseConfig(phase).humidity_min - 5
    /\ ~active
    /\ sensor_data.water_level > enough

AutoControl(sensor_data, phase, hour, gpio, st, low, enough) ==
    LET s1 == IF Rule1(sensor_data, st.fogger_active, low)
              THEN control_fogger(st, gpio, FALSE, 0) ELSE st
        s2 == IF Rule2(sensor_data, phase, s1.fogger_active, enough)
              THEN control_fogger(s1, gpio, TRUE, fogger_duration) ELSE s1
    IN  FanLightRules(sensor_data, phase, hour, gpio, s2)

\* Rule 1 with the critical level of the status (10) in place of 15
auto_control_environment_low10(sensor_data, phase, hour, gpio, st) ==
    AutoControl(sensor_data, phase, hour, gpio, st, 10, 20)

\* Rule 1 with the level 25, above the level rule 2 takes for sufficient
auto_control_environment_low25(sensor_data, phase, hour, gpio, st) ==
    AutoControl(sensor_data, phase, hour, gpio, st, 25, 20)

\* Rule 2 with water_level >= 20 in place of water_level > 20
auto_control_environment_ge20(sensor_data, phase, hour, gpio, st) ==
    AutoControl(sensor_data, phase, hour, gpio, st, 15, 19)

auto_control_environment(sensor_data, phase, hour, gpio, st) ==
    AutoControl(sensor_data, phase, hour, gpio, st, 15, 20)

-----------------------------------------------------------------------------
(* DatabaseService.  db is the record of its fields and of the two stores *)

DbState ==
    [use_mongo |-> use_mongo, mongo_db |-> mongo_db, sqlite_conn |-> sqlite_conn,
     mongo_store |-> mongo_store, sqlite_store |-> sqlite_store,
     selector_by |-> selector_by]

NoId == [kind |-> "none", id |-> 0]

Reverse(s) == [i \in 1..Len(s) |-> s[Len(s) + 1 - i]]
Take(s, n) == SubSeq(s, 1, Min(n, Len(s)))
Ids(store) == {store[i].id : i \in 1..Len(store)}

\* connect_mongodb that verifies the connection and leaves use_mongo alone
connect_mongodb_no_flag(db, uri, up) ==
    IF uri
    THEN IF up
         THEN [db |-> [db EXCEPT !.mongo_db = "db"], ret |-> "True"]
         ELSE [db |-> [db EXCEPT !.use_mongo = FALSE, !.mongo_db = None],
               ret |-> "False"]
    ELSE [db |-> db, ret |-> None]

\* connect_mongodb: without a URI nothing is written and None is returned;
\* ret is "True", "False" or None
connect_mongodb(db, uri, up) ==
    IF uri
    THEN IF up
         THEN [db |-> [db EXCEPT !.mongo_db = "db", !.use_mongo = TRUE,
                                 !.selector_by = IF @ = "failover"
                                                 THEN "failback"
                                                 ELSE "reconnect"],
               ret |-> "True"]
         ELSE [db |-> [db EXCEPT !.use_mongo = FALSE, !.mongo_db = None],
               ret |-> "False"]
    ELSE [db |-> db, ret |-> None]

\* setup_sqlite: sqlite_conn stays None when sqlite3.connect raises
setup_sqlite(db, ok) ==
    [db EXCEPT !.sqlite_conn = IF ok THEN "conn" ELSE None]

\* The SQLite branch without its try/except: a failed INSERT propagates
save_reading_sqlite_raises(data, db, sok, t) ==
    IF db.sqlite_conn # None
    THEN IF sok
         THEN [db |-> [db EXCEPT !.sqlite_store =
                          Append(@, [id |-> data.id, server_timestamp |-> t])],
               ret |-> [kind |-> "sqlite", id |-> Len(db.sqlite_store) + 1],
               tried_fallback |-> TRUE, raised |-> FALSE]
         ELSE [db |-> db, ret |-> NoId, tried_fallback |-> TRUE,
               raised |-> TRUE]
    ELSE [db |-> db, ret |-> NoId, tried_fallback |-> FALSE, raised |-> FALSE]

\* The SQLite branch without its commit: lastrowid is returned, no row is kept
save_reading_sqlite_no_commit(data, db, sok, t) ==
    IF db.sqlite_conn # None
    THEN IF sok
         THEN [db |-> db,
               ret |-> [kind |-> "sqlite", id |-> Len(db.sqlite_store) + 1],
               tried_fallback |-> TRUE, raised |-> FALSE]
         ELSE [db |-> db, ret |-> NoId, tried_fallback |-> TRUE,
               raised |-> FALSE]
    ELSE [db |-> db, ret |-> NoId, tried_fallback |-> FALSE, raised |-> FALSE]

\* The SQLite branch with an INSERT that puts the row before the others
save_reading_sqlite_first(data, db, sok, t) ==
    IF db.sqlite_conn # None /\ sok
    THEN [db |-> [db EXCEPT !.sqlite_store =
                     <<[id |-> data.id, server_timestamp |-> t]>> \o @],
          ret |-> [kind |-> "sqlite", id |-> Len(db.sqlite_store) + 1],
          tried_fallback |-> TRUE, raised |-> FALSE]
    ELSE [db |-> db, ret |-> NoId, tried_fallback |-> db.sqlite_conn # None,
          raised |-> FALSE]

\* The SQLite branch of save_reading (lines 154-178)
save_reading_sqlite(data, db, sok, t) ==
    IF db.sqlite_conn # None
    THEN IF sok
         THEN [db |-> [db EXCEPT !.sqlite_store =
                          Append(@, [id |-> data.id, server_timestamp |-> t])],
               ret |-> [kind |-> "sqlite", id |-> Len(db.sqlite_store) + 1],
               tried_fallback |-> TRUE, raised |-> FALSE]
         ELSE [db |-> db, ret |-> NoId, tried_fallback |-> TRUE,
               raised |-> FALSE]
    ELSE [db |-> db, ret |-> NoId, tried_fallback |-> FALSE, raised |-> FALSE]

\* save_reading whose handler of a failed insert_one returns None at once
save_reading_no_retry(data, db, up, sok, t) ==
    IF db.use_mongo /\ db.mongo_db # None
    THEN LET stamped == [data EXCEPT !.extra = @ \cup {"server_timestamp", "_id"}]
         IN  IF up
             THEN [db |-> [db EXCEPT !.mongo_store =
                              Append(@, [id |-> data.id, server_timestamp |-> t])],
                   data |-> stamped,
                   ret |-> [kind |-> "mongo", id |-> Len(db.mongo_store) + 1],
                   tried_primary |-> TRUE, primary_failed |-> FALSE,
                   tried_fallback |-> FALSE, raised |-> FALSE]
             ELSE [db |-> [db EXCEPT !.use_mongo = FALSE,
                                     !.selector_by = "failover"],
                   data |-> stamped, ret |-> NoId,
                   tried_primary |-> TRUE, primary_failed |-> TRUE,
                   tried_fallback |-> FALSE, raised |-> FALSE]
    ELSE LET f == save_reading_sqlite(data, db, sok, t)
         IN  [db |-> f.db, data |-> data, ret |-> f.ret,
              tried_primary |-> FALSE, primary_failed |-> FALSE,
              tried_fallback |-> f.tried_fallback, raised |-> f.raised]

\* save_reading(data): result, the written fields, the dict as it is left
save_reading(data, db, up, sok, t) ==
    IF db.use_mongo /\ db.mongo_db # None
    THEN LET stamped == [data EXCEPT !.extra = @ \cup {"server_timestamp", "_id"}]
         IN  IF up
             THEN [db |-> [db EXCEPT !.mongo_store =
                              Append(@, [id |-> data.id, server_timestamp |-> t])],
                   data |-> stamped,
                   ret |-> [kind |-> "mongo", id |-> Len(db.mongo_store) + 1],
                   tried_primary |-> TRUE, primary_failed |-> FALSE,
                   tried_fallback |-> FALSE, raised |-> FALSE]
             ELSE LET f == save_reading_sqlite(stamped,
                               [db EXCEPT !.use_mongo = FALSE,
                                          !.selector_by = "failover"],
                               sok, t)
                  IN  [db |-> f.db, data |-> stamped, ret |-> f.ret,
                       tried_primary |-> TRUE, primary_failed |-> TRUE,
                       tried_fallback |-> f.tried_fallback, raised |-> f.raised]
    ELSE LET f == save_reading_sqlite(data, db, sok, t)
         IN  [db |-> f.db, data |-> data, ret |-> f.ret,
              tried_primary |-> FALSE, primary_failed |-> FALSE,
              tried_fallback |-> f.tried_fallback, raised |-> f.raised]

\* The rows a query returns: newest server_timestamp first, cut to limit
QueryRows(store, since, limit) ==
    LET kept == SelectSeq(store, LAMBDA r : r.server_timestamp >= since)
    IN  Take(Reverse([i \in 1..Len(kept) |-> kept[i].id]), limit)

\* The common shape of get_latest_readings and get_historical_data
QueryOf(db, up, sok, since, limit, primary) ==
    LET fallback(d) ==
            IF d.sqlite_conn # None
            THEN [rows |-> IF sok THEN QueryRows(d.sqlite_store, since, limit)
                           ELSE <<>>,
                  tried_fallback |-> TRUE]
            ELSE [rows |-> <<>>, tried_fallback |-> FALSE]
    IN  IF primary
        THEN IF up
             THEN [db |-> db, rows |-> QueryRows(db.mongo_store, since, limit),
                   tried_primary |-> TRUE, primary_failed |-> FALSE,
                   tried_fallback |-> FALSE, raised |-> FALSE]
             ELSE LET d == [db EXCEPT !.use_mongo = FALSE,
                                      !.selector_by = "failover"]
                  IN  [db |-> d, rows |-> fallback(d).rows,
                       tried_primary |-> TRUE, primary_failed |-> TRUE,
                       tried_fallback |-> fallback(d).tried_fallback,
                       raised |-> FALSE]
        ELSE [db |-> db, rows |-> fallback(db).rows,
              tried_primary |-> FALSE, primary_failed |-> FALSE,
              tried_fallback |-> fallback(db).tried_fallback, raised |-> FALSE]

\* A query whose handler of a failed find returns [] at once
Query_no_fallback(db, up, sok, since, limit) ==
    LET r == QueryOf(db, up, sok, since, limit,
                     db.use_mongo /\ db.mongo_db # None)
    IN  IF r.primary_failed
        THEN [r EXCEPT !.rows = <<>>, !.tried_fallback = FALSE]
        ELSE r

\* A query that tries the primary whenever a handle exists
Query_handle_only(db, up, sok, since, limit) ==
    QueryOf(db, up, sok, since, limit, db.mongo_db # None)

\* if self.use_mongo and self.mongo_db: (lines 182 and 226)
Query(db, up, sok, since, limit) ==
    QueryOf(db, up, sok, since, limit, db.use_mongo /\ db.mongo_db # None)

\* get_latest_readings(limit): no filter on server_timestamp
get_latest_readings(db, up, sok, limit) ==
    Query(db, up, sok, 0, limit)

\* get_historical_data(hours, limit): server_timestamp >= utcnow - hours
get_historical_data(db, up, sok, t, hours, limit) ==
    Query(db, up, sok, t - hours, limit)

\* What a persistence call leaves in out: the selector and the handle it
\* found, the backends it touched and its result
LogOf(op, db, r) ==
    [kind |-> op, selector |-> db.use_mongo, handle |-> db.mongo_db,
     by |-> db.selector_by,
     tried_primary |-> r.tried_primary, primary_failed |-> r.primary_failed,
     tried_fallback |-> r.tried_fallback, raised |-> r.raised]

Nothing == [kind |-> "none"]

\* No control_fogger call is between two statements
NoCalls == [timer |-> "idle", request |-> "idle"]

\* The loop thread is in no call that is modelled statement by statement
NoLocals == [call |-> "none"]

\* No field has been read from a sensor yet: <<>>, and <<v>> once v was read
NoRead == [temperature |-> <<>>, humidity |-> <<>>, co2 |-> <<>>,
           light_intensity |-> <<>>, water_level |-> <<>>]

-----------------------------------------------------------------------------
(* The state after the module is imported (lines 265, 625, 626) *)

\* DatabaseService.__init__ and setup_databases
NewDatabaseService(uri, up, ok) ==
    LET d0 == [use_mongo |-> TRUE, mongo_db |-> None, sqlite_conn |-> None,
               mongo_store |-> <<>>, sqlite_store |-> <<>>,
               selector_by |-> "init"]
    IN  setup_sqlite([connect_mongodb(d0, uri, up).db
                         EXCEPT !.selector_by = "init"], ok)

SetDb(d) ==
    /\ use_mongo' = d.use_mongo
    /\ mongo_db' = d.mongo_db
    /\ sqlite_conn' = d.sqlite_conn
    /\ mongo_store' = d.mongo_store
    /\ sqlite_store' = d.sqlite_store
    /\ selector_by' = d.selector_by

SetControl(st) ==
    /\ fogger_active' = st.fogger_active
    /\ fan_speed' = st.fan_speed
    /\ heater_active' = st.heater_active
    /\ lights_active' = st.lights_active
    /\ fogger_pin' = st.fogger_pin
    /\ timers' = st.timers

Init ==
    /\ GPIO_AVAILABLE \in BOOLEAN
    /\ MONGO_URI \in BOOLEAN
    /\ calibration_offsets = NoOffsets
    /\ mongo_up \in BOOLEAN
    /\ sqlite_ok \in BOOLEAN
    /\ LET d == NewDatabaseService(MONGO_URI, mongo_up, sqlite_ok)
       IN  /\ use_mongo = d.use_mongo
           /\ mongo_db = d.mongo_db
           /\ sqlite_conn = d.sqlite_conn
           /\ mongo_store = d.mongo_store
           /\ sqlite_store = d.sqlite_store
           /\ selector_by = d.selector_by
    /\ CURRENT_PHASE = "pinning"
    /\ fogger_active = FALSE
    /\ fan_speed = 0
    /\ heater_active = FALSE
    /\ lights_active = FALSE
    /\ fogger_pin = FALSE
    /\ timers = 0
    /\ fogger_calls = NoCalls
    /\ tick_locals = NoLocals
    /\ last_read = NoRead
    /\ current_data = InitialData
    /\ now = 0
    /\ tick_pc = "read"
    /\ ticks = 0
    /\ tick_trace = <<>>
    /\ lastError = None
    /\ mon_pc = "check"
    /\ out = Nothing
    /\ events = 0

-----------------------------------------------------------------------------
(* sensor_monitor: one action per step of the loop body *)

\* datetime.now().hour: before, inside and at the end of the light schedule
Hours == {5, 12, 18}

\* sensor_data = sensor_service.get_sensor_data()
TickRead ==
    /\ tick_pc = "read"
    /\ ticks < MaxTicks
    /\ \E hour \in Hours :
         \E r \in get_sensor_data(GPIO_AVAILABLE, current_data,
                                  calibration_offsets, CURRENT_PHASE, hour,
                                  ticks + 1) :
            current_data' = r
    /\ ticks' = ticks + 1
    /\ tick_trace' = <<"read">>
    /\ lastError' = None
    /\ tick_pc' = "decide"
    /\ out' = [kind |-> "read", path |-> SensorPath(GPIO_AVAILABLE)]
    /\ UNCHANGED <<cfgVars, stepVars, CURRENT_PHASE, gpioVars, dbVars, envVars, now,
                   mon_pc, events>>

\* A decision cycle that works with the phase the program started with
TickDecide_startup_phase ==
    /\ tick_pc = "decide"
    /\ \E hour \in Hours :
         LET st == auto_control_environment(current_data,
                                            InitialData.mushroom_phase, hour,
                                            GPIO_AVAILABLE, ControlState)
         IN  /\ SetControl(st)
             /\ out' = [kind |-> "decide",
                        before |-> get_control_status(ControlState),
                        hour |-> hour, calls |-> st.calls]
    /\ tick_trace' = Append(tick_trace, "decide")
    /\ tick_pc' = "save"
    /\ UNCHANGED <<cfgVars, stepVars, CURRENT_PHASE, current_data, dbVars, envVars, now,
                   ticks, lastError, mon_pc, events>>

\* auto_control_environment(sensor_data)
TickDecide ==
    /\ tick_pc = "decide"
    /\ \E hour \in Hours :
         LET st == auto_control_environment(current_data, CURRENT_PHASE, hour,
                                            GPIO_AVAILABLE, ControlState)
         IN  /\ SetControl(st)
             /\ out' = [kind |-> "decide",
                        before |-> get_control_status(ControlState),
                        hour |-> hour, calls |-> st.calls]
    /\ tick_trace' = Append(tick_trace, "decide")
    /\ tick_pc' = "save"
    /\ UNCHANGED <<cfgVars, stepVars, CURRENT_PHASE, current_data, dbVars, envVars, now,
                   ticks, lastError, mon_pc, events>>

\* Rule 1 alone (lines 806-809): what has run when line 813 raises
Rule1Only(sensor_data, gpio, st) ==
    IF Rule1(sensor_data, st.fogger_active, 15)
    THEN control_fogger(st, gpio, FALSE, 0) ELSE st

\* A decision step whose exception reaches the handler of the loop
TickDecideError_propagates ==
    /\ tick_pc = "decide"
    /\ \E st \in {ControlState,
                   Rule1Only(current_data, GPIO_AVAILABLE, ControlState)} :
         SetControl(st)
    /\ out' = [kind |-> "decide_error"]
    /\ tick_trace' = Append(tick_trace, "decide_error")
    /\ tick_pc' = "backoff"
    /\ lastError' = "decide"
    /\ UNCHANGED <<cfgVars, stepVars, CURRENT_PHASE, current_data, dbVars, envVars, now,
                   ticks, mon_pc, events>>

\* auto_control_environment raises in its body, before rule 1 or between
\* rule 1 and rule 2: except Exception (lines 831-832) prints and returns
TickDecideError ==
    /\ tick_pc = "decide"
    /\ \E st \in {ControlState,
                   Rule1Only(current_data, GPIO_AVAILABLE, ControlState)} :
         SetControl(st)
    /\ out' = [kind |-> "decide_error"]
    /\ tick_trace' = Append(tick_trace, "decide_error")
    /\ tick_pc' = "save"
    /\ UNCHANGED <<cfgVars, stepVars, CURRENT_PHASE, current_data, dbVars, envVars, now,
                   ticks, lastError, mon_pc, events>>

\* A loop that skips the emit when nothing was saved
TickSave_skip_publish ==
    /\ tick_pc = "save"
    /\ LET r == save_reading(current_data, DbState, mongo_up, sqlite_ok, now)
       IN  /\ SetDb(r.db)
           /\ current_data' = r.data
           /\ out' = LogOf("save", DbState, r)
                        @@ [ret |-> r.ret, id |-> current_data.id]
           /\ tick_trace' = Append(tick_trace, "save")
           /\ lastError' = lastError
           /\ tick_pc' = IF r.ret.kind = "none" THEN "sleep" ELSE "publish"
    /\ UNCHANGED <<cfgVars, stepVars, CURRENT_PHASE, gpioVars, envVars, now, ticks,
                   mon_pc, events>>

\* db_service.save_reading(sensor_data); an exception would reach the handler
\* of the loop (line 793)
TickSave ==
    /\ tick_pc = "save"
    /\ LET r == save_reading(current_data, DbState, mongo_up, sqlite_ok, now)
       IN  /\ SetDb(r.db)
           /\ current_data' = r.data
           /\ out' = LogOf("save", DbState, r)
                        @@ [ret |-> r.ret, id |-> current_data.id]
           /\ tick_trace' = Append(tick_trace, "save")
           /\ IF r.raised
              THEN tick_pc' = "backoff" /\ lastError' = "save"
              ELSE tick_pc' = "publish" /\ lastError' = lastError
    /\ UNCHANGED <<cfgVars, stepVars, CURRENT_PHASE, gpioVars, envVars, now, ticks,
                   mon_pc, events>>

\* socketio.emit('sensor_update', {**sensor_data, 'controls': control_status})
TickPublish ==
    /\ tick_pc = "publish"
    /\ out' = [kind |-> "emit", data |-> current_data,
               controls |-> get_control_status(ControlState)]
    /\ tick_trace' = Append(tick_trace, "publish")
    /\ tick_pc' = "sleep"
    /\ UNCHANGED <<cfgVars, stepVars, CURRENT_PHASE, gpioVars, current_data, dbVars,
                   envVars, now, ticks, lastError, mon_pc, events>>

\* socketio.emit raises: except Exception (line 793)
TickPublishFail ==
    /\ tick_pc = "publish"
    /\ lastError' = "publish"
    /\ tick_pc' = "backoff"
    /\ out' = Nothing
    /\ UNCHANGED <<cfgVars, stepVars, CURRENT_PHASE, gpioVars, current_data, dbVars,
                   envVars, now, ticks, tick_trace, mon_pc, events>>

\* time.sleep(SENSOR_READ_INTERVAL)
TickSleep ==
    /\ tick_pc = "sleep"
    /\ tick_pc' = "read"
    /\ now' = now + 1
    /\ out' = Nothing
    /\ UNCHANGED <<cfgVars, stepVars, CURRENT_PHASE, gpioVars, current_data, dbVars,
                   envVars, ticks, tick_trace, lastError, mon_pc, events>>

\* A handler that leaves the loop after the backoff
TickBackoff_break ==
    /\ tick_pc = "backoff"
    /\ tick_pc' = "stopped"
    /\ out' = Nothing
    /\ UNCHANGED <<cfgVars, stepVars, CURRENT_PHASE, gpioVars, current_data, dbVars,
                   envVars, now, ticks, tick_trace, lastError, mon_pc, events>>

\* time.sleep(5) in the handler, then the next iteration of while True
TickBackoff ==
    /\ tick_pc = "backoff"
    /\ tick_pc' = "read"
    /\ out' = Nothing
    /\ UNCHANGED <<cfgVars, stepVars, CURRENT_PHASE, gpioVars, current_data, dbVars,
                   envVars, now, ticks, tick_trace, lastError, mon_pc, events>>

-----------------------------------------------------------------------------
(* database_health_monitor *)

\* A monitor that probes only while the selector is on the primary
MonitorCheck_while_primary ==
    /\ mon_pc = "check"
    /\ IF use_mongo
       THEN LET r == connect_mongodb(DbState, MONGO_URI, mongo_up)
            IN  /\ SetDb(r.db)
                /\ out' = [kind |-> "probe", probed |-> TRUE, ret |-> r.ret]
       ELSE /\ UNCHANGED dbVars
            /\ out' = [kind |-> "probe", probed |-> FALSE, ret |-> None]
    /\ mon_pc' = "sleep"
    /\ UNCHANGED <<cfgVars, stepVars, CURRENT_PHASE, gpioVars, current_data, envVars,
                   now, tickVars, events>>

\* A monitor that probes the primary on every pass
MonitorCheck_every_pass ==
    /\ mon_pc = "check"
    /\ LET r == connect_mongodb(DbState, MONGO_URI, mongo_up)
       IN  /\ SetDb(r.db)
           /\ out' = [kind |-> "probe", probed |-> TRUE, ret |-> r.ret]
    /\ mon_pc' = "sleep"
    /\ UNCHANGED <<cfgVars, stepVars, CURRENT_PHASE, gpioVars, current_data, envVars,
                   now, tickVars, events>>

\* One pass of the loop body: the probe runs only when use_mongo is False
MonitorCheck ==
    /\ mon_pc = "check"
    /\ IF ~use_mongo
       THEN LET r == connect_mongodb(DbState, MONGO_URI, mongo_up)
            IN  /\ SetDb(r.db)
                /\ out' = [kind |-> "probe", probed |-> TRUE, ret |-> r.ret]
       ELSE /\ UNCHANGED dbVars
            /\ out' = [kind |-> "probe", probed |-> FALSE, ret |-> None]
    /\ mon_pc' = "sleep"
    /\ UNCHANGED <<cfgVars, stepVars, CURRENT_PHASE, gpioVars, current_data, envVars,
                   now, tickVars, events>>

\* time.sleep(30)
MonitorSleep ==
    /\ mon_pc = "sleep"
    /\ mon_pc' = "check"
    /\ out' = Nothing
    /\ UNCHANGED <<cfgVars, stepVars, CURRENT_PHASE, gpioVars, current_data, dbVars,
                   envVars, now, tickVars, events>>

-----------------------------------------------------------------------------
(* The fogger's auto-off timer and the web handlers *)

\* A callback that leaves the fogger on while the reading is still too dry
TimerFire_while_dry ==
    /\ timers > 0
    /\ SetControl(IF Rule2(current_data, CURRENT_PHASE, FALSE, 20)
                  THEN [ControlState EXCEPT !.timers = @ - 1]
                  ELSE control_fogger([ControlState EXCEPT !.timers = @ - 1],
                                      GPIO_AVAILABLE, FALSE, 0))
    /\ out' = [kind |-> "timer", before |-> get_control_status(ControlState)]
    /\ UNCHANGED <<cfgVars, stepVars, CURRENT_PHASE, current_data, dbVars, envVars, now,
                   tickVars, mon_pc, events>>

\* threading.Timer(duration, self.control_fogger, [False]) fires
TimerFire ==
    /\ timers > 0
    /\ SetControl(control_fogger([ControlState EXCEPT !.timers = @ - 1],
                                 GPIO_AVAILABLE, FALSE, 0))
    /\ out' = [kind |-> "timer", before |-> get_control_status(ControlState)]
    /\ UNCHANGED <<cfgVars, stepVars, CURRENT_PHASE, current_data, dbVars, envVars, now,
                   tickVars, mon_pc, events>>

\* POST /api/control/fogger
ApiFogger ==
    /\ events < MaxEvents
    /\ events' = events + 1
    /\ \E activate \in BOOLEAN, duration \in {0, fogger_duration} :
         /\ SetControl(control_fogger(ControlState, GPIO_AVAILABLE, activate,
                                      IF activate THEN duration ELSE 0))
         /\ out' = [kind |-> "command", method |-> "control_fogger",
                    activate |-> activate,
                    duration |-> IF activate THEN duration ELSE 0]
    /\ UNCHANGED <<cfgVars, stepVars, CURRENT_PHASE, current_data, dbVars, envVars, now,
                   tickVars, mon_pc>>

\* data.get('speed', 0): whatever number the JSON body of the request holds,
\* one inside the range of the docstring of control_fan and one outside
Speeds == {0, 150}

\* POST /api/control/fan
ApiFan ==
    /\ events < MaxEvents
    /\ events' = events + 1
    /\ \E speed \in Speeds :
         /\ SetControl(control_fan(ControlState, GPIO_AVAILABLE, speed))
         /\ out' = [kind |-> "command", method |-> "control_fan",
                    speed |-> speed]
    /\ UNCHANGED <<cfgVars, stepVars, CURRENT_PHASE, current_data, dbVars, envVars, now,
                   tickVars, mon_pc>>

\* POST /api/control/lights
ApiLights ==
    /\ events < MaxEvents
    /\ events' = events + 1
    /\ \E activate \in BOOLEAN :
         /\ SetControl(control_lights(ControlState, GPIO_AVAILABLE, activate))
         /\ out' = [kind |-> "command", method |-> "control_lights",
                    activate |-> activate]
    /\ UNCHANGED <<cfgVars, stepVars, CURRENT_PHASE, current_data, dbVars, envVars, now,
                   tickVars, mon_pc>>

\* A setter that stores whatever id it is given
set_mushroom_phase_any(phase, new_phase) ==
    new_phase

\* set_mushroom_phase: the new phase, or the phase as it was
set_mushroom_phase(phase, new_phase) ==
    IF new_phase \in DOMAIN GROWTH_PHASES THEN new_phase ELSE phase

ApiPhase_lights_off ==
    /\ events < MaxEvents
    /\ events' = events + 1
    /\ \E new_phase \in Phases \cup {"unknown"} :
         /\ CURRENT_PHASE' = set_mushroom_phase(CURRENT_PHASE, new_phase)
         /\ out' = [kind |-> "phase", requested |-> new_phase,
                    success |-> new_phase \in DOMAIN GROWTH_PHASES]
    /\ lights_active' = FALSE
    /\ UNCHANGED <<cfgVars, stepVars, fogger_active, fan_speed, heater_active,
                   fogger_pin, timers, current_data, dbVars, envVars, now,
                   tickVars, mon_pc>>

\* POST /api/phase
ApiPhase ==
    /\ events < MaxEvents
    /\ events' = events + 1
    /\ \E new_phase \in Phases \cup {"unknown"} :
         /\ CURRENT_PHASE' = set_mushroom_phase(CURRENT_PHASE, new_phase)
         /\ out' = [kind |-> "phase", requested |-> new_phase,
                    success |-> new_phase \in DOMAIN GROWTH_PHASES]
    /\ UNCHANGED <<cfgVars, stepVars, gpioVars, current_data, dbVars, envVars, now,
                   tickVars, mon_pc>>

LatestLimit == 10
HistoryLimit == 500

\* GET /api/latest
ApiLatest ==
    /\ LET r == get_latest_readings(DbState, mongo_up, sqlite_ok, LatestLimit)
       IN  /\ SetDb(r.db)
           /\ out' = LogOf("latest", DbState, r)
                        @@ [rows |-> r.rows, since |-> 0, limit |-> LatestLimit]
    /\ UNCHANGED <<cfgVars, stepVars, CURRENT_PHASE, gpioVars, current_data, envVars,
                   now, tickVars, mon_pc, events>>

\* GET /api/history?hours=
ApiHistory ==
    /\ \E hours \in {0, 24} :
         LET r == get_historical_data(DbState, mongo_up, sqlite_ok, now, hours,
                                      HistoryLimit)
         IN  /\ SetDb(r.db)
             /\ out' = LogOf("history", DbState, r)
                          @@ [rows |-> r.rows, since |-> now - hours,
                              limit |-> HistoryLimit]
    /\ UNCHANGED <<cfgVars, stepVars, CURRENT_PHASE, gpioVars, current_data, envVars,
                   now, tickVars, mon_pc, events>>

-----------------------------------------------------------------------------
(* The environment: the two stores become unreachable and reachable again *)

MongoOutage ==
    /\ events < MaxEvents
    /\ events' = events + 1
    /\ mongo_up /\ mongo_up' = FALSE
    /\ out' = Nothing
    /\ UNCHANGED <<cfgVars, stepVars, CURRENT_PHASE, gpioVars, current_data, dbVars,
                   sqlite_ok, now, tickVars, mon_pc>>

MongoRestore ==
    /\ events < MaxEvents
    /\ events' = events + 1
    /\ ~mongo_up /\ mongo_up' = TRUE
    /\ out' = Nothing
    /\ UNCHANGED <<cfgVars, stepVars, CURRENT_PHASE, gpioVars, current_data, dbVars,
                   sqlite_ok, now, tickVars, mon_pc>>

SqliteOutage ==
    /\ events < MaxEvents
    /\ events' = events + 1
    /\ sqlite_ok /\ sqlite_ok' = FALSE
    /\ out' = Nothing
    /\ UNCHANGED <<cfgVars, stepVars, CURRENT_PHASE, gpioVars, current_data, dbVars,
                   mongo_up, now, tickVars, mon_pc>>

SqliteRestore ==
    /\ events < MaxEvents
    /\ events' = events + 1
    /\ ~sqlite_ok /\ sqlite_ok' = TRUE
    /\ out' = Nothing
    /\ UNCHANGED <<cfgVars, stepVars, CURRENT_PHASE, gpioVars, current_data, dbVars,
                   mongo_up, now, tickVars, mon_pc>>

-----------------------------------------------------------------------------
(* The whole program *)

Next ==
    \/ TickRead \/ TickDecide \/ TickSave \/ TickPublish \/ TickPublishFail
    \/ TickSleep \/ TickBackoff
    \/ MonitorCheck \/ MonitorSleep
    \/ TimerFire
    \/ ApiFogger \/ ApiFan \/ ApiLights \/ ApiPhase \/ ApiLatest \/ ApiHistory
    \/ MongoOutage \/ MongoRestore \/ SqliteOutage \/ SqliteRestore

Spec == Init /\ [][Next]_vars

\* The program with no operator request to the actuators or the phase
NextDb ==
    \/ TickRead \/ TickDecide \/ TickSave \/ TickPublish \/ TickPublishFail
    \/ TickSleep \/ TickBackoff
    \/ MonitorCheck \/ MonitorSleep
    \/ ApiLatest \/ ApiHistory
    \/ MongoOutage \/ MongoRestore \/ SqliteOutage \/ SqliteRestore

InitDb == Init /\ ~GPIO_AVAILABLE

SpecDb == InitDb /\ [][NextDb]_vars

\* The monitor thread keeps running: connect_mongodb returns within the
\* server selection timeout and time.sleep(30) returns
Monitor == MonitorCheck \/ MonitorSleep

\* The loop, the monitor and the primary going away and coming back
NextMon ==
    \/ TickRead \/ TickDecide \/ TickSave \/ TickPublish \/ TickPublishFail
    \/ TickSleep \/ TickBackoff
    \/ MonitorCheck \/ MonitorSleep
    \/ MongoOutage \/ MongoRestore

LiveMon == InitDb /\ [][NextMon]_vars /\ WF_vars(Monitor)

\* The program with both stores as they were at startup and no query
NextCtl ==
    \/ TickRead \/ TickDecide \/ TickSave \/ TickPublish \/ TickPublishFail
    \/ TickSleep \/ TickBackoff
    \/ TimerFire
    \/ ApiFogger \/ ApiFan \/ ApiLights \/ ApiPhase

InitCtl == Init /\ MONGO_URI /\ mongo_up /\ sqlite_ok

SpecCtl == InitCtl /\ [][NextCtl]_vars

\* The same program with a decision step that can raise
NextContain == NextCtl \/ TickDecideError

SpecContain == InitCtl /\ [][NextContain]_vars

-----------------------------------------------------------------------------
(* The threads statement by statement.  The loop thread, the thread of a    *)
(* threading.Timer and the thread of a request share gpio_control and       *)
(* CURRENT_PHASE without a lock: here simulate_realistic_data,              *)
(* auto_control_environment and control_fogger take one step per access to  *)
(* the shared state, and the other threads run between the steps.           *)

\* simulate_realistic_data, lines 524-565: the values, drawn around the
\* ranges of the phase that CURRENT_PHASE names at line 527
ReadDraw ==
    /\ tick_pc = "read"
    /\ ticks < MaxTicks
    /\ SensorPath(GPIO_AVAILABLE) = "simulate_realistic_data"
    /\ \E hour \in Hours :
         \E r \in simulate_realistic_data(CURRENT_PHASE, hour, ticks + 1) :
            tick_locals' = [r EXCEPT !.mushroom_phase = None,
                                     !.mushroom_status = None]
    /\ tick_pc' = "read_status"
    /\ out' = Nothing
    /\ UNCHANGED <<cfgVars, fogger_calls, last_read, CURRENT_PHASE, gpioVars,
                   current_data, dbVars, envVars, now, ticks, tick_trace,
                   lastError, mon_pc, events>>

\* line 568: determine_mushroom_status reads CURRENT_PHASE at line 586
ReadStatus ==
    /\ tick_pc = "read_status"
    /\ tick_locals' =
           [tick_locals EXCEPT !.mushroom_status =
               determine_mushroom_status(CURRENT_PHASE,
                   tick_locals.temperature, tick_locals.humidity,
                   tick_locals.co2, tick_locals.light_intensity,
                   tick_locals.water_level)]
    /\ tick_pc' = "read_build"
    /\ out' = Nothing
    /\ UNCHANGED <<cfgVars, fogger_calls, last_read, CURRENT_PHASE, gpioVars,
                   current_data, dbVars, envVars, now, ticks, tick_trace,
                   lastError, mon_pc, events>>

\* lines 570-582: the dict, with 'mushroom_phase': CURRENT_PHASE (line 578)
ReadBuild ==
    /\ tick_pc = "read_build"
    /\ current_data' = [tick_locals EXCEPT !.mushroom_phase = CURRENT_PHASE]
    /\ tick_locals' = NoLocals
    /\ ticks' = ticks + 1
    /\ tick_trace' = <<"read">>
    /\ lastError' = None
    /\ tick_pc' = "decide"
    /\ out' = Nothing
    /\ UNCHANGED <<cfgVars, fogger_calls, last_read, CURRENT_PHASE, gpioVars,
                   dbVars, envVars, now, mon_pc, events>>

\* The position in control_fogger(activate) after the test of line 314: the
\* simulation branch is the assignment alone, the hardware branch writes the
\* pin first
FoggerEntry(gpio, activate) ==
    IF activate THEN (IF gpio THEN "on_output" ELSE "on_assign")
    ELSE (IF gpio THEN "off_output" ELSE "off_assign")

\* auto_control_environment, lines 800-807: phase_config and the test of rule 1
DecideRule1 ==
    /\ tick_pc = "decide"
    /\ tick_locals' = [phase |-> CURRENT_PHASE,
                       before |-> get_control_status(ControlState)]
    /\ tick_pc' = IF Rule1(current_data, fogger_active, 15)
                  THEN FoggerEntry(GPIO_AVAILABLE, FALSE) ELSE "rule2"
    /\ out' = Nothing
    /\ UNCHANGED <<cfgVars, fogger_calls, last_read, CURRENT_PHASE, gpioVars,
                   current_data, dbVars, envVars, now, ticks, tick_trace,
                   lastError, mon_pc, events>>

\* line 813: the test of rule 2
DecideRule2 ==
    /\ tick_pc = "rule2"
    /\ tick_pc' = IF Rule2(current_data, tick_locals.phase, fogger_active, 20)
                  THEN FoggerEntry(GPIO_AVAILABLE, TRUE) ELSE "rule3"
    /\ out' = Nothing
    /\ UNCHANGED <<cfgVars, stepVars, CURRENT_PHASE, gpioVars, current_data,
                   dbVars, envVars, now, ticks, tick_trace, lastError, mon_pc,
                   events>>

\* control_fogger called by the loop thread: GPIO.output (lines 321, 329)
DecideFoggerOutput ==
    /\ tick_pc \in {"on_output", "off_output"}
    /\ fogger_pin' = (tick_pc = "on_output")
    /\ tick_pc' = IF tick_pc = "on_output" THEN "on_assign" ELSE "off_assign"
    /\ out' = Nothing
    /\ UNCHANGED <<cfgVars, stepVars, CURRENT_PHASE, fogger_active, fan_speed,
                   heater_active, lights_active, timers, current_data, dbVars,
                   envVars, now, ticks, tick_trace, lastError, mon_pc, events>>

\* control_fogger called by the loop thread: self.fogger_active = ... (lines
\* 316, 322, 330) and, for rule 2 in hardware mode, the Timer of line 327
DecideFoggerAssign ==
    /\ tick_pc \in {"on_assign", "off_assign"}
    /\ fogger_active' = (tick_pc = "on_assign")
    /\ timers' = IF tick_pc = "on_assign" /\ GPIO_AVAILABLE
                 THEN timers + 1 ELSE timers
    /\ tick_pc' = IF tick_pc = "on_assign" THEN "rule3" ELSE "rule2"
    /\ out' = Nothing
    /\ UNCHANGED <<cfgVars, stepVars, CURRENT_PHASE, fan_speed, heater_active,
                   lights_active, fogger_pin, current_data, dbVars, envVars,
                   now, ticks, tick_trace, lastError, mon_pc, events>>

\* lines 816-829: the fan rules and the light rule
DecideRest ==
    /\ tick_pc = "rule3"
    /\ \E hour \in Hours :
         SetControl(FanLightRules(current_data, tick_locals.phase, hour,
                                  GPIO_AVAILABLE, ControlState))
    /\ tick_locals' = NoLocals
    /\ tick_trace' = Append(tick_trace, "decide")
    /\ tick_pc' = "save"
    /\ out' = [kind |-> "decide", before |-> tick_locals.before]
    /\ UNCHANGED <<cfgVars, fogger_calls, last_read, CURRENT_PHASE,
                   current_data, dbVars, envVars, now, ticks, lastError,
                   mon_pc, events>>

\* The Timer's thread runs control_fogger(False): GPIO.output (line 329)
TimerOutput ==
    /\ timers > 0
    /\ fogger_calls.timer = "idle"
    /\ timers' = timers - 1
    /\ fogger_pin' = FALSE
    /\ fogger_calls' = [fogger_calls EXCEPT !.timer = "off_assign"]
    /\ out' = Nothing
    /\ UNCHANGED <<cfgVars, tick_locals, last_read, CURRENT_PHASE,
                   fogger_active, fan_speed, heater_active, lights_active,
                   current_data, dbVars, envVars, now, tickVars, mon_pc,
                   events>>

\* The Timer's thread: self.fogger_active = False (line 330)
TimerAssign ==
    /\ fogger_calls.timer = "off_assign"
    /\ fogger_active' = FALSE
    /\ fogger_calls' = [fogger_calls EXCEPT !.timer = "idle"]
    /\ out' = Nothing
    /\ UNCHANGED <<cfgVars, tick_locals, last_read, CURRENT_PHASE, fan_speed,
                   heater_active, lights_active, fogger_pin, timers,
                   current_data, dbVars, envVars, now, tickVars, mon_pc,
                   events>>

\* POST /api/control/fogger in its thread (lines 686-690), up to the first
\* write of control_fogger
RequestFogger ==
    /\ events < MaxEvents
    /\ events' = events + 1
    /\ fogger_calls.request = "idle"
    /\ \E activate \in BOOLEAN, duration \in {0, fogger_duration} :
         IF GPIO_AVAILABLE
         THEN /\ fogger_pin' = activate
              /\ fogger_calls' =
                    [fogger_calls EXCEPT !.request =
                        IF ~activate THEN "off_assign"
                        ELSE IF duration # 0 THEN "on_assign_timer"
                        ELSE "on_assign"]
              /\ UNCHANGED fogger_active
         ELSE /\ fogger_active' = activate
              /\ UNCHANGED <<fogger_pin, fogger_calls>>
    /\ out' = Nothing
    /\ UNCHANGED <<cfgVars, tick_locals, last_read, CURRENT_PHASE, fan_speed,
                   heater_active, lights_active, timers, current_data, dbVars,
                   envVars, now, tickVars, mon_pc>>

\* The request's thread: self.fogger_active = ... and the Timer (lines 322-330)
RequestFoggerAssign ==
    /\ fogger_calls.request # "idle"
    /\ fogger_active' = (fogger_calls.request # "off_assign")
    /\ timers' = IF fogger_calls.request = "on_assign_timer"
                 THEN timers + 1 ELSE timers
    /\ fogger_calls' = [fogger_calls EXCEPT !.request = "idle"]
    /\ out' = Nothing
    /\ UNCHANGED <<cfgVars, tick_locals, last_read, CURRENT_PHASE, fan_speed,
                   heater_active, lights_active, fogger_pin, current_data,
                   dbVars, envVars, now, tickVars, mon_pc, events>>

NextThreads ==
    \/ ReadDraw \/ ReadStatus \/ ReadBuild
    \/ DecideRule1 \/ DecideRule2 \/ DecideFoggerOutput \/ DecideFoggerAssign
    \/ DecideRest
    \/ TickSave \/ TickPublish \/ TickPublishFail \/ TickSleep \/ TickBackoff
    \/ TimerOutput \/ TimerAssign
    \/ RequestFogger \/ RequestFoggerAssign
    \/ ApiPhase

SpecThreads == InitCtl /\ [][NextThreads]_vars

-----------------------------------------------------------------------------
(* DatabaseService statement by statement.  The loop thread, the monitor    *)
(* thread and the request threads share use_mongo and mongo_db without a    *)
(* lock: here save_reading and connect_mongodb take one step per access to  *)
(* the two fields.  mongo_db is "unverified" from line 98 until server_info *)
(* has answered.                                                            *)

\* save_reading, line 144: if self.use_mongo and self.mongo_db
SaveSelect ==
    /\ tick_pc = "save"
    /\ use_mongo /\ mongo_db # None
    /\ tick_pc' = "insert_one"
    /\ out' = Nothing
    /\ UNCHANGED <<cfgVars, stepVars, CURRENT_PHASE, gpioVars, current_data,
                   dbVars, envVars, now, ticks, tick_trace, lastError, mon_pc,
                   events>>

\* save_reading, lines 146-153 and the SQLite branch after a failure:
\* self.mongo_db is read again at line 147; on None the attribute access
\* raises inside the try
SaveInsert ==
    /\ tick_pc = "insert_one"
    /\ LET found == [DbState EXCEPT !.use_mongo = TRUE, !.mongo_db = "db"]
           r == save_reading(current_data, found,
                             mongo_up /\ mongo_db # None, sqlite_ok, now)
       IN  /\ SetDb([r.db EXCEPT !.mongo_db = mongo_db,
                                 !.use_mongo = IF r.primary_failed THEN FALSE
                                               ELSE use_mongo])
           /\ current_data' = r.data
           /\ out' = LogOf("save", [found EXCEPT !.mongo_db = mongo_db], r)
                        @@ [ret |-> r.ret, id |-> current_data.id]
    /\ tick_trace' = Append(tick_trace, "save")
    /\ tick_pc' = "publish"
    /\ UNCHANGED <<cfgVars, stepVars, CURRENT_PHASE, gpioVars, envVars, now,
                   ticks, lastError, mon_pc, events>>

\* database_health_monitor, line 839, and connect_mongodb up to line 98
ProbeBegin ==
    /\ mon_pc = "check"
    /\ IF ~use_mongo /\ MONGO_URI
       THEN /\ mongo_db' = "unverified"
            /\ mon_pc' = "server_info"
       ELSE /\ mongo_db' = mongo_db
            /\ mon_pc' = "sleep"
    /\ out' = Nothing
    /\ UNCHANGED <<cfgVars, stepVars, CURRENT_PHASE, gpioVars, current_data,
                   use_mongo, sqlite_conn, mongo_store, sqlite_store,
                   selector_by, envVars, now, tickVars, events>>

\* connect_mongodb, lines 100-108: server_info answers or raises
ProbeEnd ==
    /\ mon_pc = "server_info"
    /\ LET r == connect_mongodb(DbState, MONGO_URI, mongo_up)
       IN  /\ SetDb(r.db)
           /\ out' = [kind |-> "probe", probed |-> TRUE, ret |-> r.ret]
    /\ mon_pc' = "sleep"
    /\ UNCHANGED <<cfgVars, stepVars, CURRENT_PHASE, gpioVars, current_data,
                   envVars, now, tickVars, events>>

NextProbe ==
    \/ TickRead \/ TickDecide
    \/ SaveSelect \/ SaveInsert
    \/ (~(use_mongo /\ mongo_db # None) /\ TickSave)
    \/ TickPublish \/ TickPublishFail \/ TickSleep \/ TickBackoff
    \/ ProbeBegin \/ ProbeEnd \/ MonitorSleep
    \/ ApiLatest
    \/ MongoOutage \/ MongoRestore

SpecProbe == InitDb /\ [][NextProbe]_vars

-----------------------------------------------------------------------------
(* The two pure functions of the loop on every input of a bounded domain *)

TempDomain == {15, 16, 17, 18, 21, 22, 24, 25, 28, 29, 30, 31}
HumidityDomain ==
    {50, 54, 55, 59, 60, 74, 75, 79, 80, 85, 86, 90, 91, 100, 101}
Co2Domain == {599, 600, 800, 1500, 1501}
LightDomain == {199, 200, 500}
WaterDomain == {9, 10, 14, 15, 19, 20, 21, 60}
FanDomain == {0, 49, 50, 100}

Quiet ==
    /\ MONGO_URI = TRUE
    /\ calibration_offsets = NoOffsets
    /\ mongo_up = TRUE
    /\ sqlite_ok = TRUE
    /\ LET d == NewDatabaseService(TRUE, TRUE, TRUE)
       IN  /\ use_mongo = d.use_mongo
           /\ mongo_db = d.mongo_db
           /\ sqlite_conn = d.sqlite_conn
           /\ mongo_store = d.mongo_store
           /\ sqlite_store = d.sqlite_store
           /\ selector_by = d.selector_by
    /\ heater_active = FALSE
    /\ timers = 0
    /\ fogger_calls = NoCalls
    /\ tick_locals = NoLocals
    /\ last_read = NoRead
    /\ now = 0
    /\ ticks = 1
    /\ tick_trace = <<"read">>
    /\ lastError = None
    /\ mon_pc = "check"
    /\ out = Nothing
    /\ events = 0

\* Any reading and any phase, before the status is computed
InitStatus ==
    /\ Quiet
    /\ GPIO_AVAILABLE = FALSE
    /\ CURRENT_PHASE \in Phases
    /\ fogger_active = FALSE
    /\ fogger_pin = FALSE
    /\ fan_speed = 0
    /\ lights_active = FALSE
    /\ \E t \in TempDomain, h \in HumidityDomain, c \in Co2Domain,
          l \in LightDomain, w \in WaterDomain :
         current_data = [InitialData EXCEPT !.id = 1, !.temperature = t,
                            !.humidity = h, !.co2 = c, !.light_intensity = l,
                            !.water_level = w]
    /\ tick_pc = "classify"

\* mushroom_status = self.determine_mushroom_status(...) and the dict built
\* from it (lines 568-580)
Classify ==
    /\ tick_pc = "classify"
    /\ current_data' =
           [current_data EXCEPT
               !.mushroom_phase = CURRENT_PHASE,
               !.mushroom_status =
                   determine_mushroom_status(CURRENT_PHASE,
                       current_data.temperature, current_data.humidity,
                       current_data.co2, current_data.light_intensity,
                       current_data.water_level)]
    /\ tick_pc' = "classified"
    /\ UNCHANGED <<cfgVars, stepVars, CURRENT_PHASE, gpioVars, dbVars, envVars, now,
                   ticks, tick_trace, lastError, mon_pc, out, events>>

SpecStatus == InitStatus /\ [][Classify]_vars

\* Any reading, phase and actuator state, before the decision cycle
InitControl ==
    /\ Quiet
    /\ GPIO_AVAILABLE \in BOOLEAN
    /\ CURRENT_PHASE \in Phases
    /\ fogger_active \in BOOLEAN
    /\ fogger_pin = (GPIO_AVAILABLE /\ fogger_active)
    /\ fan_speed \in FanDomain
    /\ lights_active \in BOOLEAN
    /\ \E h \in HumidityDomain, w \in WaterDomain :
         current_data = [InitialData EXCEPT !.id = 1, !.humidity = h,
                            !.water_level = w]
    /\ tick_pc = "decide"

SpecControl == InitControl /\ [][TickDecide]_vars

\* Reservoirs: the one of the deployment, one whose sensor hangs lower than
\* the greatest depth, and one whose least depth is the bottom
Reservoirs ==
    {[sensor_height |-> sensor_height_cm, max_depth |-> max_depth_cm,
      min_depth |-> min_depth_cm],
     [sensor_height |-> 20, max_depth |-> 30, min_depth |-> 5],
     [sensor_height |-> 35, max_depth |-> 10, min_depth |-> 0]}

\* Distances read_ultrasonic_distance can return, in cm: below 0 (the echo
\* pulse ends before it starts) up to beyond every sensor height
MinDistance == 0 - 5
MaxDistance == 45

\* A reservoir and a measured distance, before the level is calculated
InitWater ==
    /\ Quiet
    /\ GPIO_AVAILABLE = TRUE
    /\ CURRENT_PHASE = "pinning"
    /\ fogger_active = FALSE
    /\ fogger_pin = FALSE
    /\ fan_speed = 0
    /\ lights_active = FALSE
    /\ current_data = InitialData
    /\ tick_pc \in {[at |-> "water", reservoir |-> r, distance_cm |-> d] :
                      r \in Reservoirs, d \in MinDistance..MaxDistance}

\* The level for the measured distance and for the distance 1 cm further
WaterLevel ==
    /\ tick_pc.at = "water"
    /\ tick_pc' = [tick_pc EXCEPT !.at = "done"]
    /\ LET r == tick_pc.reservoir
           level(d) == water_level_of_distance(r.sensor_height, r.max_depth,
                                               r.min_depth, d)
       IN  out' = [kind |-> "water", level |-> level(tick_pc.distance_cm),
                   further |-> level(tick_pc.distance_cm + 1)]
    /\ UNCHANGED <<cfgVars, stepVars, CURRENT_PHASE, gpioVars, current_data,
                   dbVars, envVars, now, ticks, tick_trace, lastError, mon_pc,
                   events>>

SpecWater == InitWater /\ [][WaterLevel]_vars

\* The calibrated values the sensors of one tick deliver: <<v>> for a field
\* whose read succeeded, <<>> for a field whose read failed
FreshValues(off, scd, light, distance) ==
    [temperature |-> IF scd.state = "ok"
                     THEN <<scd.temperature + off.temperature>> ELSE <<>>,
     humidity |-> IF scd.state = "ok"
                  THEN <<scd.humidity + off.humidity>> ELSE <<>>,
     co2 |-> IF scd.state = "ok" THEN <<scd.co2 + off.co2>> ELSE <<>>,
     light_intensity |->
         IF light.state = "ok"
         THEN <<light_from_voltage(light.millivolts) + off.light_intensity>>
         ELSE <<>>,
     water_level |->
         IF distance.state = "ok"
         THEN <<calculate_water_level_percentage(distance) + off.water_level>>
         ELSE <<>>]

\* The offsets of a calibrated installation: none, or two percent on the
\* humidity and on the water level
OffsetChoices ==
    {NoOffsets, [NoOffsets EXCEPT !.humidity = 2, !.water_level = 2]}

\* Hardware mode with the sensors set up, before the first read
InitSensors ==
    /\ MONGO_URI = TRUE
    /\ mongo_up = TRUE
    /\ sqlite_ok = TRUE
    /\ LET d == NewDatabaseService(TRUE, TRUE, TRUE)
       IN  /\ use_mongo = d.use_mongo
           /\ mongo_db = d.mongo_db
           /\ sqlite_conn = d.sqlite_conn
           /\ mongo_store = d.mongo_store
           /\ sqlite_store = d.sqlite_store
           /\ selector_by = d.selector_by
    /\ GPIO_AVAILABLE = TRUE
    /\ calibration_offsets \in OffsetChoices
    /\ CURRENT_PHASE = "pinning"
    /\ fogger_active = FALSE
    /\ fan_speed = 0
    /\ heater_active = FALSE
    /\ lights_active = FALSE
    /\ fogger_pin = FALSE
    /\ timers = 0
    /\ fogger_calls = NoCalls
    /\ tick_locals = NoLocals
    /\ last_read = NoRead
    /\ current_data = InitialData
    /\ now = 0
    /\ tick_pc = "read_real"
    /\ ticks = 0
    /\ tick_trace = <<>>
    /\ lastError = None
    /\ mon_pc = "check"
    /\ out = Nothing
    /\ events = 0

\* One call of read_real_sensors; the call leaves self.current_data alone
ReadReal ==
    /\ tick_pc = "read_real"
    /\ ticks < MaxTicks
    /\ \E scd \in ScdInputs, light \in LightInputs,
          distance \in DistanceInputs :
         LET fresh == FreshValues(calibration_offsets, scd, light, distance)
         IN  /\ out' = [kind |-> "read_real",
                        data |-> read_real_sensors(current_data,
                                    calibration_offsets, scd, light, distance),
                        fresh |-> fresh, last |-> last_read]
             /\ last_read' = [f \in SensorFields |->
                                 IF fresh[f] # <<>> THEN fresh[f]
                                 ELSE last_read[f]]
    /\ ticks' = ticks + 1
    /\ UNCHANGED <<cfgVars, fogger_calls, tick_locals, CURRENT_PHASE, gpioVars,
                   current_data, dbVars, envVars, now, tick_pc, tick_trace,
                   lastError, mon_pc, events>>

SpecSensors == InitSensors /\ [][ReadReal]_vars

-----------------------------------------------------------------------------
(* The two backends asked for the same readings.  An instant of the clock   *)
(* is [sec, micro].  MongoDB keeps a datetime as BSON milliseconds, SQLite   *)
(* keeps the isoformat text and compares it as text.  The clock of the loop *)
(* model above counts whole sampling intervals, on which both encodings     *)
(* keep the order and the equality of the instants.                         *)

\* The characters of n written with w decimal digits, first digit first
RECURSIVE Digits(_, _)
Digits(n, w) ==
    IF w = 0 THEN <<>> ELSE Append(Digits(n \div 10, w - 1), n % 10)

\* '.', which sorts before every digit
Dot == 0 - 1

\* datetime.isoformat(): the fixed-width fields down to the second, then
\* '.' and six digits unless microsecond is 0
isoformat(dt) ==
    IF dt.micro = 0 THEN Digits(dt.sec, 4)
    ELSE Digits(dt.sec, 4) \o <<Dot>> \o Digits(dt.micro, 6)

\* The datetime as pymongo encodes it: milliseconds, the rest dropped
bson_datetime(dt) == dt.sec * 1000 + dt.micro \div 1000

\* a <= b for two TEXT values (bytewise, a prefix sorts first)
RECURSIVE TextLeq(_, _)
TextLeq(a, b) ==
    IF a = <<>> THEN TRUE
    ELSE IF b = <<>> THEN FALSE
    ELSE IF Head(a) # Head(b) THEN Head(a) < Head(b)
    ELSE TextLeq(Tail(a), Tail(b))

\* timedelta(hours=hours)
HourSeconds == 3600

\* time_threshold = datetime.utcnow() - timedelta(hours=hours)
time_threshold(t, hours) == [t EXCEPT !.sec = @ - hours * HourSeconds]

\* a <= b for two keys: TEXT values on SQLite, BSON datetimes on MongoDB
KeyLeq(text, a, b) == IF text THEN TextLeq(a, b) ELSE a <= b

\* The ids of the given rows of store, greatest key first
SortDesc(store, rows, text) ==
    LET n == Cardinality(rows)
        order == CHOOSE f \in [1..n -> rows] :
                     \A i, j \in 1..n :
                         i < j => /\ f[i] # f[j]
                                  /\ KeyLeq(text, store[f[j]].server_timestamp,
                                            store[f[i]].server_timestamp)
    IN  [i \in 1..n |-> store[order[i]].id]

\* find({'server_timestamp': {'$gte': time_threshold}, 'device_id': ...})
\* .sort('server_timestamp', -1).limit(limit); filtered is FALSE for the
\* find of get_latest_readings
mongo_find(store, filtered, threshold, limit) ==
    LET kept == {i \in 1..Len(store) :
                    filtered => store[i].server_timestamp
                                    >= bson_datetime(threshold)}
    IN  Take(SortDesc(store, kept, FALSE), limit)

\* SELECT * FROM readings WHERE device_id = ? AND server_timestamp >= ?
\* ORDER BY server_timestamp DESC LIMIT ?, the parameter being
\* time_threshold.isoformat()
sqlite_select(store, filtered, threshold, limit) ==
    LET kept == {i \in 1..Len(store) :
                    filtered => TextLeq(isoformat(threshold),
                                        store[i].server_timestamp)}
    IN  Take(SortDesc(store, kept, TRUE), limit)

\* The fractions of a second at which a reading is stamped or a query asked
Micros == {0, 400, 1700}

\* save_reading stamps the readings of successive ticks one sampling
\* interval apart, each at some fraction of its second
SENSOR_READ_INTERVAL == 10
MaxRows == 3
Stamps ==
    UNION {[1..n -> Micros] : n \in 0..MaxRows}

\* The documents insert_one would keep and the rows the INSERT would keep
\* for the same readings
MongoDocs(stamps) ==
    [i \in DOMAIN stamps |->
        [id |-> i,
         server_timestamp |->
             bson_datetime([sec |-> i * SENSOR_READ_INTERVAL,
                            micro |-> stamps[i]])]]
SqliteRows(stamps) ==
    [i \in DOMAIN stamps |->
        [id |-> i,
         server_timestamp |->
             isoformat([sec |-> i * SENSOR_READ_INTERVAL,
                        micro |-> stamps[i]])]]

\* Both stores hold the same readings; the clock is past the last of them
InitQuery ==
    /\ GPIO_AVAILABLE = FALSE
    /\ MONGO_URI = TRUE
    /\ calibration_offsets = NoOffsets
    /\ mongo_up = TRUE
    /\ sqlite_ok = TRUE
    /\ use_mongo = TRUE
    /\ mongo_db = "db"
    /\ sqlite_conn = "conn"
    /\ selector_by = "init"
    /\ \E stamps \in Stamps :
          /\ mongo_store = MongoDocs(stamps)
          /\ sqlite_store = SqliteRows(stamps)
    /\ CURRENT_PHASE = "pinning"
    /\ fogger_active = FALSE
    /\ fan_speed = 0
    /\ heater_active = FALSE
    /\ lights_active = FALSE
    /\ fogger_pin = FALSE
    /\ timers = 0
    /\ fogger_calls = NoCalls
    /\ tick_locals = NoLocals
    /\ last_read = NoRead
    /\ current_data = InitialData
    /\ now \in {[sec |-> HourSeconds + k * SENSOR_READ_INTERVAL, micro |-> u] :
                  k \in 1..MaxRows, u \in Micros}
    /\ tick_pc = "sleep"
    /\ ticks = 0
    /\ tick_trace = <<>>
    /\ lastError = None
    /\ mon_pc = "sleep"
    /\ out = Nothing
    /\ events = 0

\* get_latest_readings(limit) as the primary answers it and as the fallback
\* answers it
AskLatest ==
    /\ \E limit \in {2, LatestLimit} :
         out' = [kind |-> "asked", query |-> "latest", limit |-> limit,
                 mongo |-> mongo_find(mongo_store, FALSE, now, limit),
                 sqlite |-> sqlite_select(sqlite_store, FALSE, now, limit)]
    /\ UNCHANGED <<cfgVars, stepVars, CURRENT_PHASE, gpioVars, current_data,
                   dbVars, envVars, now, tickVars, mon_pc, events>>

\* get_historical_data(hours, limit) as the primary answers it and as the
\* fallback answers it
AskHistory ==
    /\ \E hours \in {0, 1}, limit \in {2, HistoryLimit} :
         LET threshold == time_threshold(now, hours)
         IN  out' = [kind |-> "asked", query |-> "history", limit |-> limit,
                     mongo |-> mongo_find(mongo_store, TRUE, threshold, limit),
                     sqlite |-> sqlite_select(sqlite_store, TRUE, threshold,
                                              limit)]
    /\ UNCHANGED <<cfgVars, stepVars, CURRENT_PHASE, gpioVars, current_data,
                   dbVars, envVars, now, tickVars, mon_pc, events>>

SpecQuery == InitQuery /\ [][AskLatest \/ AskHistory]_vars

\* The loop thread keeps running: each of its steps returns
Tick ==
    \/ TickRead \/ TickDecide \/ TickSave \/ TickPublish \/ TickPublishFail
    \/ TickSleep \/ TickBackoff

LiveSpec == InitCtl /\ [][NextCtl]_vars /\ WF_vars(Tick)

-----------------------------------------------------------------------------
(* Claims *)

HumidityLow == current_data.humidity < PhaseConfig(CURRENT_PHASE).humidity_min - 5

\* C1: a decision cycle that starts with the fogger on and a reading whose
\* water level is below 15 ends with the fogger off, whatever the humidity,
\* the phase and the other fields are.
C1_WaterSafetyOverride ==
    (out.kind = "decide" /\ out.before.fogger_active
        /\ current_data.water_level < 15)
    => ~fogger_active

\* C1 witness: the override has acted on a reading that is also too dry
C1_Witness ==
    /\ out.kind = "decide"
    /\ out.before.fogger_active
    /\ current_data.water_level < 15
    /\ HumidityLow
    /\ ~fogger_active

\* C2: a decision cycle that starts with the fogger off ends with the fogger
\* on exactly when humidity < humidity_min - 5 for the current phase and
\* water_level > 20; with water_level <= 20 the fogger is never turned on.
C2_FoggerOnIff ==
    (out.kind = "decide" /\ ~out.before.fogger_active)
    => /\ fogger_active <=> (HumidityLow /\ current_data.water_level > 20)
       /\ current_data.water_level <= 20 => ~fogger_active

\* C2 witness: the fogger was turned on at the lowest sufficient water level
C2_Witness ==
    /\ out.kind = "decide"
    /\ ~out.before.fogger_active
    /\ fogger_active
    /\ current_data.water_level = 21

SqliteAvailable == sqlite_conn # None /\ sqlite_ok

\* C3: a save_reading call that finds the selector on the primary and whose
\* insert_one fails sets use_mongo to False, and, the SQLite store being
\* available, inserts the reading there and returns the row id.
C3_FailoverOnWrite ==
    (out.kind = "save" /\ out.selector /\ out.primary_failed)
    => /\ ~use_mongo
       /\ SqliteAvailable =>
            /\ out.ret.kind = "sqlite"
            /\ out.ret.id \in 1..Len(sqlite_store)
            /\ sqlite_store[out.ret.id].id = out.id

\* C3 witness: a save failed over and returned a SQLite row id
C3_Witness ==
    /\ out.kind = "save"
    /\ out.selector
    /\ out.primary_failed
    /\ out.ret.kind = "sqlite"
    /\ ~use_mongo

\* C4: a probe of the health monitor that returns True leaves the selector on
\* the primary with a handle, and a save_reading call that finds the selector
\* as the failback left it tries the primary first.
C4_Failback ==
    /\ (out.kind = "probe" /\ out.ret = "True")
       => (use_mongo /\ mongo_db # None)
    /\ (out.kind = "save" /\ out.by = "failback")
       => (out.selector /\ out.tried_primary)

\* C4 witness: after a failover and a failback a reading went to the primary
C4_Witness ==
    /\ out.kind = "save"
    /\ out.by = "failback"
    /\ out.tried_primary
    /\ out.ret.kind = "mongo"

\* C5: a save_reading, get_latest_readings or get_historical_data call that
\* finds use_mongo False does nothing on the primary, and use_mongo goes from
\* False to True only in a health-monitor probe that returns True.
C5_StickyFallback ==
    /\ []((out.kind \in {"save", "latest", "history"} /\ ~out.selector)
          => ~out.tried_primary)
    /\ [][(~use_mongo /\ use_mongo')
          => (out'.kind = "probe" /\ out'.ret = "True")]_vars

\* C5 witness: a query served by SQLite while the primary handle still exists
C5_Witness ==
    /\ out.kind \in {"latest", "history"}
    /\ ~out.selector
    /\ out.handle # None
    /\ out.tried_fallback
    /\ ~out.tried_primary

\* C6: the loop never stops: wherever it is, also in the backoff after a tick
\* that raised, it comes back to the start of a tick.
C6_LoopNeverTerminates ==
    /\ [](tick_pc \in {"read", "decide", "save", "publish", "sleep", "backoff"})
    /\ (tick_pc # "read") ~> (tick_pc = "read")

\* C6 witness: the loop is at the start of a tick after a tick that raised
C6_Witness ==
    /\ tick_pc = "read"
    /\ lastError = "publish"

\* C7: a tick that raised nothing did read, decide, save and publish once
\* each and in this order, and the event it sent carries the reading of this
\* tick and the actuator state.
C7_CleanTickOrder ==
    /\ tick_pc = "sleep"
       => tick_trace = <<"read", "decide", "save", "publish">>
    /\ out.kind = "emit"
       => /\ tick_pc = "sleep"
          /\ out.data.id = ticks
          /\ out.data = current_data
          /\ out.controls = get_control_status(ControlState)

\* C7 witness: the event of the second tick was sent, with the lights that
\* its decision cycle switched on
C7_Witness ==
    /\ out.kind = "emit"
    /\ out.data.id = 2
    /\ out.controls.lights_active
    /\ tick_trace = <<"read", "decide", "save", "publish">>

\* The out-of-range fields of a reading under a phase, as section 4.1 lists
\* them
IssueSet(d, phase) ==
    LET c == PhaseConfig(phase)
    IN  {f \in {"temperature", "humidity", "co2", "light", "water_level"} :
           \/ f = "temperature"
              /\ ~(c.temp_min - 2 <= d.temperature
                   /\ d.temperature <= c.temp_max + 2)
           \/ f = "humidity"
              /\ ~(c.humidity_min - 10 <= d.humidity
                   /\ d.humidity <= c.humidity_max + 5)
           \/ f = "co2" /\ ~(600 <= d.co2 /\ d.co2 <= 1500)
           \/ f = "light" /\ c.light_needed /\ d.light_intensity < 200
           \/ f = "water_level" /\ d.water_level < 20}

\* C8: the status is 'critical' when water_level < 10; otherwise it is
\* 'optimal', 'good', 'warning' or 'critical' for 0, 1, 2 or at least 3
\* out-of-range fields.
C8_StatusByIssueCount ==
    tick_pc = "classified"
    => LET n == Cardinality(IssueSet(current_data, CURRENT_PHASE))
       IN  current_data.mushroom_status =
             IF current_data.water_level < 10 THEN "critical"
             ELSE CASE n = 0 -> "optimal"
                    [] n = 1 -> "good"
                    [] n = 2 -> "warning"
                    [] OTHER -> "critical"

\* C8 witness: water below 10 as the only out-of-range field, so 'critical'
C8_Witness ==
    /\ tick_pc = "classified"
    /\ current_data.water_level < 10
    /\ Cardinality(IssueSet(current_data, CURRENT_PHASE)) = 1
    /\ current_data.mushroom_status = "critical"

\* C9 as stated: every reading passed to save_reading is in the SQLite table
\* once the call has returned, whichever backend is current (the local store
\* being available, as section 4.3 takes it to be).
C9_LocalDurability ==
    (out.kind = "save" /\ SqliteAvailable) => out.id \in Ids(sqlite_store)

\* C9 amended: a save_reading call that returns an id has stored the reading
\* in the store that served it: the primary collection when insert_one
\* succeeded, the SQLite table when the primary was not tried or failed; and
\* with the SQLite store available such a call always returns an id.
C9_StoredWhereServed ==
    out.kind = "save"
    => /\ out.ret.kind = "mongo"
          => (out.tried_primary /\ ~out.primary_failed
              /\ out.id \in Ids(mongo_store))
       /\ out.ret.kind = "sqlite"
          => ((~out.tried_primary \/ out.primary_failed)
              /\ out.id \in Ids(sqlite_store))
       /\ ((~out.tried_primary \/ out.primary_failed) /\ SqliteAvailable)
          => out.ret.kind = "sqlite"

\* C9 witness: a reading saved in the primary only
C9_Witness ==
    /\ out.kind = "save"
    /\ out.ret.kind = "mongo"
    /\ out.id \in Ids(mongo_store)
    /\ out.id \notin Ids(sqlite_store)

\* C10: save_reading raises nothing, whatever the two backends do: the tick
\* goes on to publish and the loop's handler is never entered from the save.
C10_SaveNeverRaises ==
    /\ out.kind = "save" => (~out.raised /\ tick_pc = "publish")
    /\ lastError # "save"

\* C10 witness: both backends failed, the call returned None and the tick
\* went on
C10_Witness ==
    /\ out.kind = "save"
    /\ out.primary_failed
    /\ out.tried_fallback
    /\ out.ret.kind = "none"
    /\ tick_pc = "publish"

\* C11: a get_latest_readings or get_historical_data call whose primary query
\* fails sets use_mongo to False and returns the rows of the SQLite table for
\* the same query, or the empty list when the SQLite query fails or there is
\* no SQLite connection; no query raises.
C11_FailoverOnRead ==
    out.kind \in {"latest", "history"}
    => /\ ~out.raised
       /\ out.primary_failed
          => /\ ~use_mongo
             /\ out.rows = IF SqliteAvailable
                           THEN QueryRows(sqlite_store, out.since, out.limit)
                           ELSE <<>>

\* C11 witness: a query failed over and returned a row kept by SQLite
C11_Witness ==
    /\ out.kind \in {"latest", "history"}
    /\ out.primary_failed
    /\ out.tried_fallback
    /\ out.rows # <<>>
    /\ ~use_mongo

\* C12: a decision cycle in which rule 2 turns the fogger on leaves an
\* auto-off pending, so that the fogger goes off again without a further
\* reading or command, in simulation mode as in hardware mode.
C12_AutoOffScheduled ==
    (out.kind = "decide" /\ ~out.before.fogger_active /\ fogger_active)
    => timers > 0

\* C13: at most one auto-off timer is pending at any time, however many
\* activate commands are issued before the first one has fired.
C13_SingleTimer == timers <= 1

\* Neither a control_fogger call nor the loop thread is between the write
\* of the pin and the assignment of the field
FoggerQuiescent ==
    /\ fogger_calls = NoCalls
    /\ tick_pc \notin {"on_assign", "off_assign"}

\* C14: the writes of the loop thread, of the timer's callback and of the
\* manual command are serialized: in hardware mode, whenever no control_fogger
\* call is in progress, fogger_active is the level last written to the pin,
\* and the fogger is still off when the activation that rule 2 decided acts.
C14_Serialized ==
    /\ (GPIO_AVAILABLE /\ FoggerQuiescent) => (fogger_active = fogger_pin)
    /\ tick_pc \in {"on_output", "on_assign"} => ~fogger_active

\* C15: a request for a phase id that is no key of GROWTH_PHASES gets the
\* error answer and leaves CURRENT_PHASE and the loop as they were; the
\* current phase is a key of GROWTH_PHASES in every reachable state.
C15_InvalidPhaseRejected ==
    /\ [](CURRENT_PHASE \in DOMAIN GROWTH_PHASES)
    /\ [][(out'.kind = "phase" /\ out'.requested \notin DOMAIN GROWTH_PHASES)
          => /\ ~out'.success
             /\ CURRENT_PHASE' = CURRENT_PHASE
             /\ UNCHANGED <<tickVars, current_data>>]_vars

\* C15 witness: an unknown id was rejected in the middle of a tick, after a
\* valid switch
C15_Witness ==
    /\ out.kind = "phase"
    /\ out.requested \notin DOMAIN GROWTH_PHASES
    /\ ~out.success
    /\ CURRENT_PHASE = "fruiting"
    /\ tick_pc = "save"

\* C17: get_sensor_data returns a reading of read_real_sensors exactly when
\* the hardware layer is available, and a simulated reading otherwise.
C17_ModeByHardware ==
    out.kind = "read"
    => (out.path = "read_real_sensors" <=> GPIO_AVAILABLE)

\* C16: a reading of read_real_sensors carries, for a field whose read
\* failed, the value of the last successful read of that field, and for every
\* other field the value read in this tick.
C16_LastKnownValue ==
    out.kind = "read_real"
    => \A f \in SensorFields :
          IF out.fresh[f] # <<>>
          THEN out.data[f] = out.fresh[f][1]
          ELSE out.last[f] # <<>> => out.data[f] = out.last[f][1]

\* C18: the reading the read step returns has water_level and humidity
\* within 0..100, from the simulation and from the sensors.
C18_RangesClamped ==
    /\ out.kind = "read"
       => /\ current_data.water_level \in 0..100
          /\ current_data.humidity \in 0..100
    /\ out.kind = "read_real"
       => /\ out.data.water_level \in 0..100
          /\ out.data.humidity \in 0..100

\* The status of a reading is the classification of its own fields under
\* the phase that the reading records
StatusOfOwnFields(d) ==
    d.mushroom_status =
        determine_mushroom_status(d.mushroom_phase, d.temperature, d.humidity,
                                  d.co2, d.light_intensity, d.water_level)

\* C19: every reading that is saved or published has the status that its own
\* fields classify to under its own mushroom_phase, also when the phase is
\* set while the reading is being produced.
C19_StatusMatchesReading ==
    /\ out.kind = "save" => StatusOfOwnFields(current_data)
    /\ out.kind = "emit" => StatusOfOwnFields(out.data)

\* C20: save_reading leaves the dict it is given as it was: after the call,
\* and in the event published after it, the reading has no key that the read
\* step did not give it.
C20_ReadingImmutable ==
    /\ out.kind = "save" => current_data.extra = {}
    /\ out.kind = "emit" => out.data.extra = {}

\* C21: the monitor probes the primary exactly in the passes that find
\* use_mongo False; a probe that does not succeed leaves use_mongo False and
\* raises nothing, the pass goes on to its sleep, and the monitor always
\* comes back to the next pass.
C21_MonitorProbe ==
    /\ [](mon_pc \in {"check", "sleep"})
    /\ [][out'.kind = "probe"
          => /\ out'.probed <=> ~use_mongo
             /\ (out'.probed /\ out'.ret # "True") => ~use_mongo'
             /\ ~out'.probed => UNCHANGED dbVars
             /\ mon_pc' = "sleep"]_vars
    /\ []<>(mon_pc = "check")

\* C21 witness: after a failover a probe failed and the pass went to its sleep
C21_Witness ==
    /\ out.kind = "probe"
    /\ out.probed
    /\ out.ret = "False"
    /\ selector_by = "failover"
    /\ ~use_mongo
    /\ mon_pc = "sleep"

\* C22: asked for the same stored readings with the same arguments,
\* get_latest_readings and get_historical_data return the same readings in
\* the same order on MongoDB and on SQLite.
C22_SameOnBothBackends ==
    out.kind = "asked" => out.mongo = out.sqlite

\* The reading of the end-to-end scenario of section 9, classified
Scenario ==
    /\ tick_pc = "classified"
    /\ CURRENT_PHASE = "fruiting"
    /\ GROWTH_PHASES["fruiting"].humidity_min = 65
    /\ GROWTH_PHASES["fruiting"].humidity_max = 85
    /\ GROWTH_PHASES["fruiting"].light_needed
    /\ current_data.temperature = 24
    /\ current_data.humidity = 50
    /\ current_data.co2 = 800
    /\ current_data.light_intensity = 500
    /\ current_data.water_level = 60

\* C23 as stated: the reading of the scenario is classified 'critical'
C23_ScenarioCritical ==
    Scenario => current_data.mushroom_status = "critical"

\* C23 amended: in the reading of the scenario humidity is the only
\* out-of-range field, and the reading is classified 'good'.
C23_ScenarioGood ==
    Scenario => /\ IssueSet(current_data, CURRENT_PHASE) = {"humidity"}
                /\ current_data.mushroom_status = "good"

\* C23 witness: the reading of the scenario has been classified
C23_Witness ==
    /\ Scenario
    /\ current_data.mushroom_phase = "fruiting"
    /\ current_data.mushroom_status = "good"

\* C24: for a reservoir with min_depth < max_depth the water level of every
\* distance, also one beyond the sensor height or below 0, is within 0..100,
\* and the level of a greater distance is never greater.
C24_WaterLevelMonotone ==
    out.kind = "water"
    => /\ out.level \in 0..100
       /\ out.further \in 0..100
       /\ out.further <= out.level

\* C24 witness: the level falls from one distance to the next, inside the
\* reservoir of the deployment
C24_Witness ==
    /\ out.kind = "water"
    /\ tick_pc.reservoir.sensor_height = sensor_height_cm
    /\ tick_pc.reservoir.max_depth = max_depth_cm
    /\ 0 < out.further
    /\ out.further < out.level
    /\ out.level < 100

\* The rows of a store are in the order of the ticks that produced them and
\* their stamps never fall
InOrder(store) ==
    \A i, j \in 1..Len(store) :
        i < j => /\ store[i].id < store[j].id
                 /\ store[i].server_timestamp <= store[j].server_timestamp

\* C25: every reading is stored once; of two stored readings, in the same
\* store or one in each, the one of the earlier tick has the earlier or the
\* same server_timestamp; and when a save returns, its reading is the last
\* row of its store and no reading of a later tick is stored anywhere.
C25_PersistedInOrder ==
    /\ InOrder(mongo_store)
    /\ InOrder(sqlite_store)
    /\ \A i \in 1..Len(mongo_store), j \in 1..Len(sqlite_store) :
          LET m == mongo_store[i]
              q == sqlite_store[j]
          IN  /\ m.id # q.id
              /\ m.id < q.id => m.server_timestamp <= q.server_timestamp
              /\ q.id < m.id => q.server_timestamp <= m.server_timestamp
    /\ (out.kind = "save" /\ out.ret.kind # "none")
       => /\ \A r \in Ids(mongo_store) \cup Ids(sqlite_store) : r <= out.id
          /\ LET store == IF out.ret.kind = "mongo" THEN mongo_store
                          ELSE sqlite_store
             IN  store[Len(store)].id = out.id

\* C25 witness: the first reading was saved after a failover, the second
\* after the failback, one clock step later
C25_Witness ==
    /\ out.kind = "save"
    /\ out.by = "failback"
    /\ Len(sqlite_store) = 1
    /\ Len(mongo_store) = 1
    /\ sqlite_store[1].id = 1
    /\ mongo_store[1].id = 2
    /\ sqlite_store[1].server_timestamp < mongo_store[1].server_timestamp

\* C26: a decision cycle sets the fan to 50 when humidity > humidity_max + 5
\* and the fan was below 50, else to 0 when humidity <= humidity_max and the
\* fan was running, and leaves fan_speed as it was in every other case.
C26_FanHysteresis ==
    out.kind = "decide"
    => LET humidity == current_data.humidity
           humidity_max == PhaseConfig(CURRENT_PHASE).humidity_max
           before == out.before.fan_speed
       IN  fan_speed = IF humidity > humidity_max + 5 /\ before < 50 THEN 50
                       ELSE IF humidity <= humidity_max /\ before > 0 THEN 0
                       ELSE before

\* C26 witness: inside the band above humidity_max a running fan kept its
\* speed
C26_Witness ==
    /\ out.kind = "decide"
    /\ current_data.humidity > PhaseConfig(CURRENT_PHASE).humidity_max
    /\ current_data.humidity <= PhaseConfig(CURRENT_PHASE).humidity_max + 5
    /\ out.before.fan_speed = 49
    /\ fan_speed = 49
    /\ "control_fan" \notin {out.calls[i] : i \in 1..Len(out.calls)}

\* The hour of the decision cycle is an hour of light for the phase
LightTarget ==
    /\ PhaseConfig(CURRENT_PHASE).light_needed
    /\ on_hour <= out.hour
    /\ out.hour < off_hour

\* C27: after a decision cycle lights_active says whether the phase needs
\* light and the hour is in [on_hour, off_hour), whatever it said before, and
\* control_lights was called only if that differs from what it said before.
C27_LightSchedule ==
    out.kind = "decide"
    => /\ lights_active = LightTarget
       /\ "control_lights" \in {out.calls[i] : i \in 1..Len(out.calls)}
              => LightTarget # out.before.lights_active

\* C27 witness: at off_hour the lights, on before, were turned off
C27_Witness ==
    /\ out.kind = "decide"
    /\ PhaseConfig(CURRENT_PHASE).light_needed
    /\ out.hour = off_hour
    /\ out.before.lights_active
    /\ ~lights_active
    /\ out.calls # <<>>
    /\ out.calls[Len(out.calls)] = "control_lights"

\* The number of calls of the method in the decision cycle
CallsOf(method) == Cardinality({i \in 1..Len(out.calls) : out.calls[i] = method})

\* C28: a decision cycle calls control_fogger at most once, control_fan at
\* most once and control_lights at most once.
C28_OneCommandPerActuator ==
    out.kind = "decide"
    => /\ CallsOf("control_fogger") <= 1
       /\ CallsOf("control_fan") <= 1
       /\ CallsOf("control_lights") <= 1

\* C28 witness: a cycle that called each of the three methods once; rule 1
\* fired on a reading that is also too dry
C28_Witness ==
    /\ out.kind = "decide"
    /\ HumidityLow
    /\ out.calls = <<"control_fogger", "control_fan", "control_lights">>
    /\ out.before.fogger_active
    /\ ~fogger_active

\* C29: a manual command given a second time with the same arguments, with
\* nothing in between, changes neither the fields of the service, nor the
\* level of the fogger pin, nor the pending auto-off timers.
C29_CommandsIdempotent ==
    [][(out.kind = "command" /\ out' = out) => UNCHANGED gpioVars]_vars

\* C30: when an auto-off timer fires the fogger is off afterwards, field and
\* pin, whatever the reading and the phase are; the callback reads and
\* writes neither of them, and the other pending timers stay pending.
C30_HardTimeout ==
    [][out'.kind = "timer"
       => /\ ~fogger_active'
          /\ ~fogger_pin'
          /\ timers' = timers - 1
          /\ UNCHANGED <<current_data, CURRENT_PHASE, fan_speed,
                         lights_active>>]_vars

\* C30 witness: the timer turned the fogger off while the latest reading is
\* too dry and has enough water for rule 2
C30_Witness ==
    /\ out.kind = "timer"
    /\ out.before.fogger_active
    /\ ~fogger_active
    /\ HumidityLow
    /\ current_data.water_level > 20

\* C31: the decision cycle and the classification that follow a phase switch
\* work with the ranges and the light flag of the phase as it is then: the
\* fogger is turned on only below humidity_min - 5 of that phase, the fan
\* and the lights are as its humidity_max and light_needed say, and a new
\* reading records that phase and is classified under its ranges.
C31_PhaseNotCached ==
    /\ out.kind = "decide"
       => LET phase_config == PhaseConfig(CURRENT_PHASE)
              humidity == current_data.humidity
          IN  /\ (~out.before.fogger_active /\ fogger_active)
                    => humidity < phase_config.humidity_min - 5
              /\ humidity > phase_config.humidity_max + 5 => fan_speed >= 50
              /\ humidity <= phase_config.humidity_max => fan_speed = 0
              /\ lights_active = (/\ phase_config.light_needed
                                  /\ on_hour <= out.hour
                                  /\ out.hour < off_hour)
    /\ out.kind = "read"
       => /\ current_data.mushroom_phase = CURRENT_PHASE
          /\ StatusOfOwnFields(current_data)

\* C31 witness: after a switch to a phase that needs no light, the decision
\* cycle at noon turned off the lights that were on under the phase before
C31_Witness ==
    /\ out.kind = "decide"
    /\ CURRENT_PHASE = "colonization"
    /\ current_data.mushroom_phase = "colonization"
    /\ out.hour = 12
    /\ out.before.lights_active
    /\ ~lights_active

\* C32: a save_reading call that found the selector on the primary works on
\* a handle whose connection a probe has verified, never on a handle that is
\* None by then or that a probe in progress has just assigned.
C32_VerifiedHandle ==
    (out.kind = "save" /\ out.selector /\ out.tried_primary)
    => out.handle = "db"

ActuatorState == <<fogger_active, fan_speed, heater_active, lights_active>>

\* C33 as stated: fogger_active, fan_speed, heater_active and lights_active
\* change only in a decision cycle or when an auto-off timer fires.
C33_OnlyEngineOrTimer ==
    [][ActuatorState' # ActuatorState => out'.kind \in {"decide", "timer"}]_vars

\* C33: fogger_active, fan_speed, heater_active and lights_active change only
\* in a decision cycle, when an auto-off timer fires, or in the handler of a
\* manual command (/api/control/fogger, /fan, /lights); the read, save,
\* publish and sleep steps and the phase request leave them alone.
C33_OnlyEngineTimerOrCommand ==
    [][ActuatorState' # ActuatorState
         => out'.kind \in {"decide", "timer", "command"}]_vars

\* a manual command has lit the lights between two decision cycles, in a
\* phase whose light rule keeps them off
C33_Witness ==
    /\ out.kind = "command" /\ out.method = "control_lights"
    /\ lights_active /\ CURRENT_PHASE = "colonization" /\ tick_pc = "save"

\* C34: fan_speed is an integer within 0..100 in every reachable state.
C34_FanSpeedRange == fan_speed \in 0..100

\* how many of five conditions hold
Count(a, b, c, d, e) ==
    Cardinality({i \in 1..5 : <<a, b, c, d, e>>[i]})

\* C35: the thresholds of the classification are strict.  For a reading
\* whose every field is exactly on a bound or one step beyond it
\* (temperature min-2 / max+2, humidity min-10 / max+5, co2 600 / 1500,
\* light 200, water 20, and water 10 for the override), the fields on their
\* bound are no issues and the fields one step beyond are: the status is the
\* one of the count of the fields beyond, water exactly 10 counts as one
\* water issue without forcing 'critical', and water 9 forces 'critical'.
C35_StrictThresholds ==
    tick_pc = "classified"
    => LET c == PhaseConfig(CURRENT_PHASE)
           d == current_data
           t_on == d.temperature \in {c.temp_min - 2, c.temp_max + 2}
           t_off == d.temperature \in {c.temp_min - 3, c.temp_max + 3}
           h_on == d.humidity \in {c.humidity_min - 10, c.humidity_max + 5}
           h_off == d.humidity \in {c.humidity_min - 11, c.humidity_max + 6}
           c_on == d.co2 \in {600, 1500}
           c_off == d.co2 \in {599, 1501}
           l_on == d.light_intensity = 200
           l_off == d.light_intensity = 199
           w_on == d.water_level = 20
           w_off == d.water_level \in {19, 10}
           n == Count(t_off, h_off, c_off, l_off /\ c.light_needed, w_off)
       IN  /\ ( /\ t_on \/ t_off
                /\ h_on \/ h_off
                /\ c_on \/ c_off
                /\ l_on \/ l_off
                /\ w_on \/ w_off )
              => d.mushroom_status = CASE n = 0 -> "optimal"
                                       [] n = 1 -> "good"
                                       [] n = 2 -> "warning"
                                       [] OTHER -> "critical"
           /\ d.water_level = 9 => d.mushroom_status = "critical"

\* every field exactly on its bound, water exactly 10: one issue, no override
C35_Witness ==
    /\ tick_pc = "classified" /\ CURRENT_PHASE = "fruiting"
    /\ current_data.temperature = 28 /\ current_data.humidity = 55
    /\ current_data.co2 = 1500 /\ current_data.light_intensity = 200
    /\ current_data.water_level = 10
    /\ current_data.mushroom_status = "good"

\* C36: every reading that save_reading has stored (its call returned an id)
\* is among the rows of every later get_latest_readings(10) call; fewer than
\* 10 readings are saved in all, and the SQLite store is available to the
\* query.
C36_NoReadingLost ==
    (out.kind = "latest" /\ sqlite_ok)
    => \A id \in Ids(mongo_store) \cup Ids(sqlite_store) :
          \E k \in 1..Len(out.rows) : out.rows[k] = id

\* C37: whenever the selector says primary (use_mongo, which the status
\* endpoint reports as 'MongoDB') a primary handle exists, and a persistence
\* operation that finds the selector on the primary is attempted on the
\* primary.
C37_StatusTruthful ==
    /\ use_mongo => mongo_db # None
    /\ (out.kind \in {"save", "latest", "history"} /\ out.selector)
          => out.tried_primary

\* C38: failback is live.  If the primary is reachable from some point on and
\* the health monitor keeps running, every state with the selector on the
\* fallback is followed by a state with the selector on the primary.
C38_FailbackLive == (<>[]mongo_up) => ((~use_mongo) ~> use_mongo)

\* a probe has succeeded after a failed query had moved the selector away
C38_Witness ==
    /\ out.kind = "probe" /\ out.ret = "True"
    /\ use_mongo /\ mongo_up /\ selector_by = "failback"
    /\ Len(tick_trace) >= 3

DecideFailed == \E i \in 1..Len(tick_trace) : tick_trace[i] = "decide_error"
Saved == \E i \in 1..Len(tick_trace) : tick_trace[i] = "save"

\* C39: an error inside auto_control_environment stays in the decision step.
\* The tick goes on to save_reading with the reading it read and to the emit,
\* it ends in the normal sleep unless the save or the emit itself raises, and
\* no tick reaches the emit or the sleep without having passed its reading to
\* save_reading.
C39_DecisionFailureContained ==
    /\ out.kind = "decide_error" => (tick_pc = "save" /\ current_data.id = ticks)
    /\ (DecideFailed /\ tick_pc = "backoff") => lastError \in {"save", "publish"}
    /\ (DecideFailed /\ tick_pc = "sleep")
          => tick_trace = <<"read", "decide_error", "save", "publish">>
    /\ tick_pc \in {"publish", "sleep"} => Saved
    /\ out.kind = "save" => out.id = ticks

\* a tick whose decision step raised has saved, published and gone to sleep
C39_Witness ==
    /\ DecideFailed /\ tick_pc = "sleep" /\ out.kind = "emit"
    /\ out.data.id = ticks /\ Ids(mongo_store) = {1, 2}
    /\ lastError = None

=============================================================================
